---- MODULE Spec2Model ----
(***************************************************************************)
(* A model of the DataFast MCP server: the inbound fetch handler that      *)
(* starts a session with the api_key of the connection URL, and the tool   *)
(* handlers that turn validated parameters into outbound DataFast API      *)
(* calls and the responses into result envelopes.                           *)
(*                                                                         *)
(* A handler runs atomically between two awaits of an outbound fetch: one  *)
(* action issues the first call, one action per handler consumes the       *)
(* outcome of the call in flight and runs the handler to its next call or  *)
(* to its return.  Reading the body (response.json()) is part of the       *)
(* action that consumes the response.                                      *)
(*                                                                         *)
(* Spec follows the invocations of a session one at a time, for every      *)
(* modelled tool.  Concurrent follows several create_revenue_goal          *)
(* invocations in flight at once, interleaved at their awaits and with the *)
(* clock advancing between them.  Live                                     *)
(* follows the tools of the API server when every call in flight gets its  *)
(* outcome.                                                                *)
(*                                                                         *)
(* Texts are sequences of segments: the constant parts of a template       *)
(* literal and the interpolated values, in order.  The emoji glyphs of the *)
(* templates are written as ASCII tags such as "(check)".                  *)
(***************************************************************************)
EXTENDS Integers, Sequences, FiniteSets, TLC

VARIABLES
    props,      \* ctx.props of the session: the apiKey, or NoProps
    inbound,    \* the last inbound HTTP request and the response to it
    tool,       \* name of the tool being invoked ("none" when idle)
    params,     \* the validated parameters of the invocation
    pc,         \* position of the handler
    calls,      \* the outbound calls of the invocation, in issue order
    replies,    \* the outcomes of those calls, in arrival order
    idx,        \* batch_create_goals: index of the item being processed
    results,    \* batch_create_goals: the results array
    goalResult, \* create_revenue_goal: the parsed body of the goals call
    envelope,   \* the value the handler returned
    thrown,     \* the error that left the handler, if one did
    now,        \* the clock Date.now() reads
    invocations \* the create_revenue_goal invocations in flight at once

vars == <<props, inbound, tool, params, pc, calls, replies, idx, results,
          goalResult, envelope, thrown, now, invocations>>

(***************************************************************************)
(* Bounds of the model.                                                    *)
(***************************************************************************)
MaxBatch == 2   \* longest goals array given to batch_create_goals
MaxClock == 1   \* last value of the clock
MaxInvocations == 2   \* create_revenue_goal invocations in flight at once

(***************************************************************************)
(* JavaScript values: a tag and a printed form.                            *)
(***************************************************************************)
U == [t |-> "undefined", v |-> ""]
Str(s) == [t |-> "string", v |-> s]
Num(s) == [t |-> "number", v |-> s]
Bool(b) == [t |-> "boolean", v |-> IF b THEN "true" ELSE "false"]
Obj(id) == [t |-> "object", v |-> id]

\* ToBoolean: undefined, "", 0 and false are falsy.
Truthy(x) ==
    CASE x.t = "undefined" -> FALSE
      [] x.t = "string" -> x.v # ""
      [] x.t = "number" -> x.v # "0"
      [] x.t = "boolean" -> x.v = "true"
      [] OTHER -> TRUE

\* a || b
OrElse(a, b) == IF Truthy(a) THEN a ELSE b

\* ${x} inside a template literal
Render(x) == IF x.t = "undefined" THEN "undefined" ELSE x.v

\* number.toString()
NumToString(x) == Str(x.v)

Contains(text, seg) == \E i \in 1..Len(text) : text[i] = seg

\* { ...a, ...b }: the keys of both, b's value where both have the key
Spread(a, b) ==
    [k \in (DOMAIN a) \cup (DOMAIN b) |-> IF k \in DOMAIN b THEN b[k] ELSE a[k]]

\* ...(cond && { key: value })
SpreadIf(cond, key, value) ==
    IF Truthy(cond) THEN [k \in {key} |-> value] ELSE [k \in {} |-> U]

EmptyObject == [k \in {} |-> U]

\* JSON.stringify of an object: a key whose value is undefined is left out
StringifyKeepingUndefined(o) == o
JSONstringify(o) == [k \in {j \in DOMAIN o : o[j].t # "undefined"} |-> o[k]]

(***************************************************************************)
(* The metadata records a caller can pass (z.record(z.string())).          *)
(***************************************************************************)
MetadataIds == {"{}", "{plan}", "{currency,revenue_amount}"}

MetadataOf(id) ==
    CASE id = "{plan}" -> [k \in {"plan"} |-> Str("pro")]
      [] id = "{currency,revenue_amount}" ->
            [k \in {"currency", "revenue_amount"} |->
                IF k = "currency" THEN Str("EUR") ELSE Str("1")]
      [] OTHER -> EmptyObject

(***************************************************************************)
(* Goal names.  The documented format is lowercase letters, digits,        *)
(* underscores and hyphens, at most 32 characters.                         *)
(***************************************************************************)
MaxGoalNameLen == 32
LongName == "aaaaaaaaaaaaaaaaaaaaaaaaaaaaaaaaa"
GoalNames == {"signup", "Sign Up!", LongName}
NameLength(n) ==
    CASE n = "signup" -> 6
      [] n = "Sign Up!" -> 8
      [] OTHER -> 33
NameCharsetOk(n) == n # "Sign Up!"
IsDocumentedGoalName(x) ==
    /\ x.t = "string"
    /\ NameCharsetOk(x.v)
    /\ NameLength(x.v) <= MaxGoalNameLen

(***************************************************************************)
(* The parameter schemas (zod).  A field has a type, may be optional and   *)
(* may have a default; .describe() adds no constraint.                     *)
(***************************************************************************)
Field(type, optional, default) ==
    [type |-> type, optional |-> optional, default |-> default]
Required(type) == Field(type, FALSE, U)
Optional(type) == Field(type, TRUE, U)
Defaulted(type, d) == Field(type, TRUE, d)

GoalItemSchema ==
    [datafast_visitor_id |-> Required("string"),
     name |-> Required("string"),
     metadata |-> Optional("object")]

SchemaOf(t) ==
    CASE t = "create_payment" ->
            [amount |-> Required("number"),
             currency |-> Required("string"),
             transaction_id |-> Required("string"),
             datafast_visitor_id |-> Required("string"),
             email |-> Optional("string"),
             name |-> Optional("string"),
             customer_id |-> Optional("string"),
             renewal |-> Defaulted("boolean", Bool(FALSE)),
             refunded |-> Defaulted("boolean", Bool(FALSE)),
             timestamp |-> Optional("string")]
      [] t = "create_goal" -> GoalItemSchema
      [] t = "get_visitor_data" -> [datafast_visitor_id |-> Required("string")]
      [] t = "validate_visitor" -> [datafast_visitor_id |-> Required("string")]
      [] t = "create_revenue_goal" ->
            [datafast_visitor_id |-> Required("string"),
             goal_name |-> Required("string"),
             revenue_amount |-> Required("number"),
             currency |-> Defaulted("string", Str("USD")),
             metadata |-> Optional("object")]
      [] t = "get_analytics_summary" ->
            [datafast_visitor_id |-> Required("string"),
             include_prediction |-> Defaulted("boolean", Bool(TRUE))]
      [] t = "onboarding_create_goal" ->
            [visitorId |-> Required("string"),
             name |-> Required("string"),
             metadata |-> Optional("object")]
      [] t = "onboarding_get_visitor_data" -> [visitorId |-> Required("string")]
      [] t = "track_payment" ->
            [visitorId |-> Required("string"),
             amount |-> Required("number"),
             currency |-> Required("string"),
             transactionId |-> Required("string"),
             email |-> Optional("string"),
             name |-> Optional("string"),
             customerId |-> Optional("string"),
             renewal |-> Optional("boolean"),
             refunded |-> Optional("boolean")]

\* z.object(...).safeParse: every field is of its type, or is left out where
\* the schema allows it
ObjectAccepts(schema, args) ==
    \A k \in DOMAIN schema :
        IF args[k] = U
        THEN schema[k].optional
        ELSE args[k].t = schema[k].type

ObjectParse(schema, args) ==
    [k \in DOMAIN schema |-> IF args[k] = U THEN schema[k].default ELSE args[k]]

\* the schema of batch_create_goals: { goals: z.array(z.object(...)) }
BatchAccepts(args) ==
    \A i \in 1..Len(args.goals) : ObjectAccepts(GoalItemSchema, args.goals[i])

BatchParse(args) ==
    [goals |-> [i \in 1..Len(args.goals) |->
                    ObjectParse(GoalItemSchema, args.goals[i])]]

SchemaAccepts(t, args) ==
    IF t = "batch_create_goals"
    THEN BatchAccepts(args)
    ELSE ObjectAccepts(SchemaOf(t), args)

SchemaParse(t, args) ==
    IF t = "batch_create_goals"
    THEN BatchParse(args)
    ELSE ObjectParse(SchemaOf(t), args)

(***************************************************************************)
(* The arguments a client can send.                                        *)
(***************************************************************************)
VisitorIds == {Str("v1")}
OptionalMetadata == {U} \cup {Obj(id) : id \in MetadataIds}

\* a payment with every optional string supplied
FullPayment ==
    [amount |-> Num("29.99"), currency |-> Str("USD"),
     transaction_id |-> Str("tx_1"), datafast_visitor_id |-> Str("v1"),
     email |-> Str("a@b.co"), name |-> Str("Ann"),
     customer_id |-> Str("cus_1"), renewal |-> U, refunded |-> U,
     timestamp |-> Str("2024-01-01")]

PaymentArgs ==
    [amount : {Num("29.99")},
     currency : {Str("USD")},
     transaction_id : {Str("tx_1")},
     datafast_visitor_id : VisitorIds \cup {U},
     email : {U, Str(""), Str("a@b.co")},
     name : {U, Str("Ann")},
     customer_id : {U, Str("cus_1")},
     renewal : {U, Bool(TRUE)},
     refunded : {U},
     timestamp : {U, Str("2024-01-01")}]
    \cup {[FullPayment EXCEPT !.name = Str("")],
          [FullPayment EXCEPT !.customer_id = Str("")],
          [FullPayment EXCEPT !.timestamp = Str("")],
          [FullPayment EXCEPT !.amount = Num("0"), !.refunded = Bool(TRUE)]}

GoalArgs ==
    [datafast_visitor_id : VisitorIds,
     name : {Str(n) : n \in GoalNames} \cup {U},
     metadata : OptionalMetadata]

VisitorArgs == [datafast_visitor_id : VisitorIds \cup {Str("v2"), Num("7")}]

SummaryArgs ==
    [datafast_visitor_id : VisitorIds \cup {U},
     include_prediction : {U, Bool(FALSE)}]

TrackPaymentArgs ==
    [visitorId : VisitorIds,
     amount : {Num("29.99"), U},
     currency : {Str("USD")},
     transactionId : {Str("tx_1")},
     email : {U, Str(""), Str("a@b.co")},
     name : {U, Str("Ann")},
     customerId : {U, Str("cus_1")},
     renewal : {U, Bool(TRUE)},
     refunded : {U}]

OnboardingGoalArgs ==
    [visitorId : VisitorIds,
     name : {Str("signup"), U},
     metadata : OptionalMetadata]

OnboardingVisitorArgs == [visitorId : VisitorIds \cup {Num("7")}]

RevenueGoalArgs ==
    [datafast_visitor_id : VisitorIds,
     goal_name : {Str("signup"), Str("Sign Up!")},
     revenue_amount : {Num("29.99"), U},
     currency : {U, Str("EUR")},
     metadata : {U, Obj("{plan}"), Obj("{currency,revenue_amount}")}]

BatchItems ==
    [datafast_visitor_id : VisitorIds,
     name : {Str("signup"), Str("Sign Up!"), U},
     metadata : {U}]

BatchArgs == {[goals |-> s] : s \in UNION {[1..n -> BatchItems] : n \in 0..MaxBatch}}

ArgsOf(t) ==
    CASE t = "create_payment" -> PaymentArgs
      [] t = "create_goal" -> GoalArgs
      [] t = "get_visitor_data" -> VisitorArgs
      [] t = "validate_visitor" -> VisitorArgs
      [] t = "get_analytics_summary" -> SummaryArgs
      [] t = "track_payment" -> TrackPaymentArgs
      [] t = "onboarding_create_goal" -> OnboardingGoalArgs
      [] t = "onboarding_get_visitor_data" -> OnboardingVisitorArgs
      [] t = "create_revenue_goal" -> RevenueGoalArgs
      [] t = "batch_create_goals" -> BatchArgs

Tools ==
    {"create_payment", "create_goal", "get_visitor_data", "batch_create_goals",
     "validate_visitor", "create_revenue_goal", "get_analytics_summary",
     "track_payment", "onboarding_create_goal", "onboarding_get_visitor_data"}


(***************************************************************************)
(* Outbound requests.                                                      *)
(***************************************************************************)
BaseUrl == "https://datafa.st/api/v1"

HeadersWithoutScheme(apiKey) ==
    [Authorization |-> <<Render(apiKey)>>,
     ContentType |-> "application/json"]
\* headers: { Authorization: `Bearer ${apiKey}`, "Content-Type": ... }
Headers(apiKey) ==
    [Authorization |-> <<"Bearer ", Render(apiKey)>>,
     ContentType |-> "application/json"]

\* fetch(url, { method: "POST", headers, body: JSON.stringify(object) });
\* metadata is the object under the body's metadata key, if it has one
Post(path, apiKey, object, metadata) ==
    [url |-> <<BaseUrl, path>>,
     method |-> "POST",
     headers |-> Headers(apiKey),
     has_body |-> TRUE,
     body |-> JSONstringify(object),
     metadata |-> JSONstringify(metadata)]

\* fetch(`.../visitors/${id}`, { method: "GET", headers })
Get(path, id, apiKey) ==
    [url |-> <<BaseUrl, path, Render(id)>>,
     method |-> "GET",
     headers |-> Headers(apiKey),
     has_body |-> FALSE,
     body |-> EmptyObject,
     metadata |-> EmptyObject]

IsPaymentsCall(c) == c.url = <<BaseUrl, "/payments">>
IsGoalsCall(c) == c.url = <<BaseUrl, "/goals">>
IsVisitorsCall(c) == c.url[2] = "/visitors/"

(***************************************************************************)
(* Outcomes of an outbound call: fetch rejects (no response), or resolves  *)
(* with a response that has a status, a status text and a body.            *)
(***************************************************************************)
Statuses == {200, 299, 400, 404, 500}

StatusText(status) ==
    CASE status = 200 -> "OK"
      [] status = 300 -> "Multiple Choices"
      [] status = 400 -> "Bad Request"
      [] status = 404 -> "Not Found"
      [] status = 500 -> "Internal Server Error"
      [] OTHER -> ""

ResponseOkHalfOpen(status) == status >= 200 /\ status < 299
\* response.ok
ResponseOk(status) == status >= 200 /\ status <= 299

\* data.identity: city, country, countryCode, the device, browser, os and
\* viewport objects (all there, or not), and the params object
NoTrafficParams == [present |-> FALSE, ref |-> U, utm_source |-> U]
TrafficParams(ref, utm_source) ==
    [present |-> TRUE, ref |-> ref, utm_source |-> utm_source]
NoIdentity ==
    [present |-> FALSE, city |-> U, region |-> U, country |-> U,
     countryCode |-> U, parts |-> FALSE, params |-> NoTrafficParams]
Identity(city, country, parts, trafficParams) ==
    [present |-> TRUE, city |-> city,
     region |-> IF country = U THEN U ELSE Str("IDF"), country |-> country,
     countryCode |-> IF country = U THEN U ELSE Str("FR"),
     parts |-> parts, params |-> trafficParams]

\* data.activity; timeSinceFirstVisit is in milliseconds
NoActivity ==
    [present |-> FALSE, visitCount |-> U, pageViewCount |-> U,
     firstVisitAt |-> U, lastVisitAt |-> U, timeSinceFirstVisit |-> 0,
     currentUrl |-> U, completedCustomGoals |-> <<>>]
Activity(timeSinceFirstVisit, goalNames) ==
    [present |-> TRUE, visitCount |-> Num("3"), pageViewCount |-> Num("12"),
     firstVisitAt |-> Str("2024-01-01T00:00:00Z"),
     lastVisitAt |-> Str("2024-01-02T12:00:00Z"),
     timeSinceFirstVisit |-> timeSinceFirstVisit,
     currentUrl |-> Str("https://example.com/pricing"),
     completedCustomGoals |-> goalNames]

\* data.prediction: score, conversionRate (in 1/10000), expectedValue (in
\* cents, when the field is there) and confidence (in 1/1000)
NoPrediction ==
    [present |-> FALSE, score |-> 0, conversionRate |-> 0,
     hasExpectedValue |-> FALSE, expectedValue |-> 0, confidence |-> 0]
Prediction(score, hasExpectedValue, expectedValue) ==
    [present |-> TRUE, score |-> score, conversionRate |-> 1234,
     hasExpectedValue |-> hasExpectedValue, expectedValue |-> expectedValue,
     confidence |-> 856]

NoData ==
    [present |-> FALSE, visitorId |-> U, identity |-> NoIdentity,
     activity |-> NoActivity, prediction |-> NoPrediction]
Data(identity, activity, prediction) ==
    [present |-> TRUE, visitorId |-> Str("v1"), identity |-> identity,
     activity |-> activity, prediction |-> prediction]

\* a body: text that does not parse as JSON, or a JSON object of which the
\* handlers read these fields; identity, activity and prediction are the
\* top-level fields that the onboarding server's get_visitor_data reads
Body(parses, errorMessage, message, transaction_id, event_id, status, data) ==
    [parses |-> parses, error_message |-> errorMessage, message |-> message,
     transaction_id |-> transaction_id, event_id |-> event_id,
     status |-> status, data |-> data, identity |-> NoIdentity,
     activity |-> NoActivity, prediction |-> NoPrediction]

\* a JSON object with the visitor's identity, activity and prediction at top
\* level
Visitor(identity, activity, prediction) ==
    [Body(TRUE, U, U, U, U, U, NoData) EXCEPT
        !.identity = identity, !.activity = activity,
        !.prediction = prediction]

Unparseable == Body(FALSE, U, U, U, U, U, NoData)
EmptyJson == Body(TRUE, U, U, U, U, U, NoData)
ErrorJson(m) == Body(TRUE, m, U, U, U, U, NoData)

WriteBodies ==
    {Unparseable, EmptyJson, ErrorJson(Str("upstream says no")), ErrorJson(Str("")),
     Body(TRUE, U, Str("ok"), Str("tx_1"), Str("e1"), U, NoData),
     Body(TRUE, U, Str("ok"), U, U, U, NoData)}

Scores == {20, 30, 50, 70, 85}

VisitorDatas ==
    {Data(NoIdentity, NoActivity, NoPrediction),
     Data(Identity(Str("Paris"), Str("France"), FALSE, NoTrafficParams),
          NoActivity, NoPrediction),
     Data(Identity(Str("Paris"), U, TRUE, TrafficParams(U, U)),
          Activity(0, <<>>), Prediction(50, FALSE, 0)),
     Data(Identity(Str("Paris"), Str("France"), TRUE,
                   TrafficParams(U, Str("newsletter"))),
          Activity(129600000, <<"signup", "purchase">>),
          Prediction(50, TRUE, 0))}
    \cup {Data(Identity(Str("Paris"), Str("France"), TRUE,
                        TrafficParams(Str("google"), Str("newsletter"))),
               Activity(129600000, <<"signup">>),
               Prediction(score, TRUE, 4250)) : score \in Scores}

ReadBodies ==
    {Unparseable, EmptyJson, ErrorJson(Str("upstream says no")),
     Body(TRUE, U, U, U, U, Str("error"), NoData),
     Body(TRUE, U, U, U, U, Str("success"), NoData)}
    \cup {Body(TRUE, U, U, U, U, Str("success"), d) : d \in VisitorDatas}
    \cup {Body(TRUE, U, U, U, U, Str("error"), d) : d \in VisitorDatas}

\* the bodies of the responses to the onboarding server's visitors call
VisitorBodies ==
    {Unparseable, EmptyJson, ErrorJson(Str("upstream says no")),
     Body(TRUE, U, U, U, U, Str("success"),
          Data(Identity(Str("Paris"), Str("France"), TRUE, NoTrafficParams),
               Activity(0, <<>>), Prediction(20, TRUE, 4250))),
     Visitor(Identity(Str("Paris"), Str("France"), TRUE, NoTrafficParams),
             Activity(0, <<>>), NoPrediction),
     Visitor(NoIdentity, Activity(0, <<>>), Prediction(20, TRUE, 4250)),
     Visitor(Identity(Str("Paris"), Str("France"), TRUE, NoTrafficParams),
             NoActivity, Prediction(85, TRUE, 4250)),
     Visitor(Identity(Str("Paris"), U, FALSE, NoTrafficParams),
             Activity(0, <<>>), Prediction(50, FALSE, 0))}
    \cup {Visitor(Identity(Str("Paris"), Str("France"), TRUE, NoTrafficParams),
                  Activity(129600000, <<"signup", "purchase">>),
                  Prediction(score, TRUE, 4250)) : score \in Scores}

FetchError == [is_error |-> TRUE, message |-> "fetch failed"]
SyntaxError == [is_error |-> TRUE, message |-> "Unexpected token < in JSON"]
TypeError == [is_error |-> TRUE, message |-> "Cannot read properties of undefined"]
NoError == [is_error |-> FALSE, message |-> ""]

Rejected == [kind |-> "reject", status |-> 0, statusText |-> "", body |-> Unparseable]
Response(status, body) ==
    [kind |-> "response", status |-> status, statusText |-> StatusText(status),
     body |-> body]

ReadOutcomes == {Rejected} \cup {Response(s, b) : s \in Statuses, b \in ReadBodies}
\* the outcomes of the goals calls of a batch
BatchOutcomes ==
    {Rejected,
     Response(200, Body(TRUE, U, Str("ok"), U, Str("e1"), U, NoData)),
     Response(200, Unparseable),
     Response(299, Body(TRUE, U, Str("ok"), U, Str("e2"), U, NoData)),
     Response(404, ErrorJson(Str("upstream says no"))),
     Response(500, Unparseable)}
\* the outcomes of a payments or goals call; 300 is the first status after
\* the ok range
WriteOutcomes ==
    {Rejected, Response(300, EmptyJson)}
    \cup {Response(s, b) : s \in Statuses, b \in WriteBodies}
VisitorOutcomes ==
    {Rejected} \cup {Response(s, b) : s \in Statuses, b \in VisitorBodies}

(***************************************************************************)
(* What a stretch of handler code ends with: a return, a throw, or the     *)
(* next outbound call.                                                      *)
(***************************************************************************)
NoEnvelope == [text |-> <<>>, isError |-> FALSE]

\* return { content: [{ type: "text", text }] }: no isError key
Plain(text) == [text |-> text, isError |-> FALSE]
\* return { content: [{ type: "text", text }], isError: true }
Failure(text) == [text |-> text, isError |-> TRUE]

Return(env) == [kind |-> "return", env |-> env]
Throw(e) == [kind |-> "throw", error |-> e]
Call(request) == [kind |-> "call", request |-> request]

\* error instanceof Error ? error.message : "Unknown error occurred"
ErrorMessage(e, otherwise) == IF e.is_error THEN e.message ELSE otherwise

\* } catch (error) { return { ... `Network error: ${...}`, isError: true } }
NoCatch(c) == c
CatchNetworkError(c) ==
    IF c.kind = "throw"
    THEN Return(Failure(<<"Network error: ",
                          ErrorMessage(c.error, "Unknown error occurred")>>))
    ELSE c

ErrorMessageOfStatusOnly(o) == o.statusText
\* (await response.json().catch(() => ({}))).error?.message || statusText
ErrorMessageOf(o) ==
    Render(OrElse(IF o.body.parses THEN o.body.error_message ELSE U,
                  Str(o.statusText)))

ErrorLineWithoutStatus(o) == <<"Error: ", ErrorMessageOf(o)>>
\* `Error ${response.status}: ${errorData.error?.message || statusText}`
ErrorLine(o) == <<"Error ", ToString(o.status), ": ", ErrorMessageOf(o)>>


(***************************************************************************)
(* The state after construction, and the inbound fetch handler.            *)
(***************************************************************************)
NoProps == [apiKey |-> U]
NoParams == EmptyObject
ApiKeys == {U, Str(""), Str("key_A"), Str("key_B")}
Paths == {"/sse", "/sse/message", "/mcp", "/"}
SessionPaths == {"/sse", "/sse/message", "/mcp"}

KeyRequired ==
    "DataFast API key is required. Please provide it as a query parameter: ?api_key=your_api_key"

\* the inbound request (its path and its api_key query parameter, U when the
\* URL has none) and the response to it
Inbound(pathname, apiKey, status, text) ==
    [pathname |-> pathname, api_key |-> apiKey, status |-> status,
     text |-> text]
NoInbound == Inbound("", U, 0, "")

\* an invocation of create_revenue_goal in flight next to others
Invocations == 1..MaxInvocations
Invocation(p, position, requests, outcomes, goal, env) ==
    [params |-> p, pc |-> position, calls |-> requests, replies |-> outcomes,
     goalResult |-> goal, envelope |-> env]
NoInvocation == Invocation(NoParams, "idle", <<>>, <<>>, EmptyJson, NoEnvelope)

Init ==
    /\ props = NoProps
    /\ inbound = NoInbound
    /\ tool = "none"
    /\ params = NoParams
    /\ pc = "idle"
    /\ calls = <<>>
    /\ replies = <<>>
    /\ idx = 0
    /\ results = <<>>
    /\ goalResult = EmptyJson
    /\ envelope = NoEnvelope
    /\ thrown = NoError
    /\ now = 0
    /\ invocations = [i \in Invocations |-> NoInvocation]

Handler ==
    <<tool, params, pc, calls, replies, idx, results, goalResult, envelope,
      thrown>>

RoutePathFirst(apiKey, pathname) ==
    IF pathname \notin SessionPaths
    THEN [status |-> 404, text |-> "Not found", serves |-> FALSE]
    ELSE IF ~Truthy(apiKey)
    THEN [status |-> 401, text |-> KeyRequired, serves |-> FALSE]
    ELSE [status |-> 200, text |-> "", serves |-> TRUE]
\* export default { fetch(request, env, ctx) }: 401 without an api_key, the
\* session with ctx.props = { apiKey } on a session path, 404 elsewhere
\* (the model follows one session: requests are taken until one starts it)
Route(apiKey, pathname) ==
    IF ~Truthy(apiKey)
    THEN [status |-> 401, text |-> KeyRequired, serves |-> FALSE]
    ELSE IF pathname \in SessionPaths
    THEN [status |-> 200, text |-> "", serves |-> TRUE]
    ELSE [status |-> 404, text |-> "Not found", serves |-> FALSE]

fetch ==
    /\ props = NoProps
    /\ \E apiKey \in ApiKeys, pathname \in Paths :
          LET r == Route(apiKey, pathname) IN
          /\ inbound' = Inbound(pathname, apiKey, r.status, r.text)
          /\ props' = IF r.serves THEN [apiKey |-> apiKey] ELSE props
    /\ UNCHANGED <<Handler, now, invocations>>

\* time passes (between the instants at which concurrent handlers read
\* Date.now(); an invocation followed alone reads the clock once)
Tick ==
    /\ now < MaxClock
    /\ now' = now + 1
    /\ UNCHANGED <<props, inbound, invocations, Handler>>

(***************************************************************************)
(* Dispatch by the session: the arguments are parsed with the tool's       *)
(* schema; the handler is called only with arguments the schema accepts.   *)
(***************************************************************************)
CanInvoke ==
    /\ props # NoProps
    /\ pc = "idle"

\* the schema rejects the arguments: the handler is not called
SchemaRejects(t, args) ==
    /\ CanInvoke
    /\ ~SchemaAccepts(t, args)
    /\ tool' = t
    /\ params' = args
    /\ pc' = "rejected"
    /\ calls' = <<>>
    /\ replies' = <<>>
    /\ idx' = 0
    /\ results' = <<>>
    /\ goalResult' = EmptyJson
    /\ envelope' = NoEnvelope
    /\ thrown' = NoError
    /\ UNCHANGED <<props, inbound, invocations, now>>

\* the handler of tool t starts and runs to its first await of a fetch,
\* which is for item i of a batch (0 for the other tools)
StartAt(t, args, request, i) ==
    /\ CanInvoke
    /\ SchemaAccepts(t, args)
    /\ tool' = t
    /\ params' = SchemaParse(t, args)
    /\ pc' = "awaiting"
    /\ calls' = <<request>>
    /\ replies' = <<>>
    /\ idx' = i
    /\ results' = <<>>
    /\ goalResult' = EmptyJson
    /\ envelope' = NoEnvelope
    /\ thrown' = NoError
    /\ UNCHANGED <<props, inbound, invocations, now>>

Start(t, args, request) == StartAt(t, args, request, 0)

\* the handler ends as c: it returns an envelope, or an error leaves it
End(c) ==
    /\ pc' = IF c.kind = "return" THEN "returned" ELSE "threw"
    /\ envelope' = IF c.kind = "return" THEN c.env ELSE NoEnvelope
    /\ thrown' = IF c.kind = "throw" THEN c.error ELSE NoError

\* the handler, awaiting its only call, gets outcome o and ends as c
Finish(o, c) ==
    /\ replies' = Append(replies, o)
    /\ End(c)
    /\ UNCHANGED <<props, inbound, invocations, tool, params, calls, idx, results,
                   goalResult, now>>

Awaiting(t) == pc = "awaiting" /\ tool = t

\* the session ships the outcome of the invocation to the client; nothing of
\* the invocation is kept
ship ==
    /\ pc \in {"returned", "threw", "rejected"}
    /\ tool' = "none"
    /\ params' = NoParams
    /\ pc' = "idle"
    /\ calls' = <<>>
    /\ replies' = <<>>
    /\ idx' = 0
    /\ results' = <<>>
    /\ goalResult' = EmptyJson
    /\ envelope' = NoEnvelope
    /\ thrown' = NoError
    /\ UNCHANGED <<props, inbound, invocations, now>>

(***************************************************************************)
(* create_payment                                                          *)
(***************************************************************************)
Defined(x) == Bool(x # U)

create_payment_body_keeping_empty(p) ==
    Spread(Spread(Spread(Spread(Spread(Spread(
        [amount |-> p.amount,
         currency |-> p.currency,
         transaction_id |-> p.transaction_id,
         datafast_visitor_id |-> p.datafast_visitor_id],
        SpreadIf(Defined(p.email), "email", p.email)),
        SpreadIf(Defined(p.name), "name", p.name)),
        SpreadIf(Defined(p.customer_id), "customer_id", p.customer_id)),
        SpreadIf(Defined(p.renewal), "renewal", p.renewal)),
        SpreadIf(Defined(p.refunded), "refunded", p.refunded)),
        SpreadIf(Defined(p.timestamp), "timestamp", p.timestamp))
create_payment_body(p) ==
    Spread(Spread(Spread(Spread(Spread(Spread(
        [amount |-> p.amount,
         currency |-> p.currency,
         transaction_id |-> p.transaction_id,
         datafast_visitor_id |-> p.datafast_visitor_id],
        SpreadIf(p.email, "email", p.email)),
        SpreadIf(p.name, "name", p.name)),
        SpreadIf(p.customer_id, "customer_id", p.customer_id)),
        SpreadIf(Defined(p.renewal), "renewal", p.renewal)),
        SpreadIf(Defined(p.refunded), "refunded", p.refunded)),
        SpreadIf(p.timestamp, "timestamp", p.timestamp))

create_payment_request(p, apiKey) ==
    Post("/payments", apiKey, create_payment_body(p), EmptyObject)

create_payment_result_unrendered(p, o) ==
    CatchNetworkError(
        IF o.kind = "reject" THEN Throw(FetchError)
        ELSE IF ~ResponseOk(o.status) THEN Return(Failure(ErrorLine(o)))
        ELSE IF ~o.body.parses THEN Throw(SyntaxError)
        ELSE Return(Plain(<<"(check) Payment recorded successfully!\nMessage: ",
                            Render(o.body.message)>>)))
create_payment_result(p, o) ==
    CatchNetworkError(
        IF o.kind = "reject" THEN Throw(FetchError)
        ELSE IF ~ResponseOk(o.status) THEN Return(Failure(ErrorLine(o)))
        ELSE IF ~o.body.parses THEN Throw(SyntaxError)
        ELSE Return(Plain(<<"(check) Payment recorded successfully!\nMessage: ",
                            Render(o.body.message),
                            "\nTransaction ID: ",
                            Render(o.body.transaction_id)>>)))

create_payment ==
    \E args \in PaymentArgs :
        Start("create_payment", args,
              create_payment_request(SchemaParse("create_payment", args),
                                     props.apiKey))

create_payment_response ==
    /\ Awaiting("create_payment")
    /\ \E o \in WriteOutcomes : Finish(o, create_payment_result(params, o))

(***************************************************************************)
(* create_goal                                                             *)
(***************************************************************************)
MetadataValue(m) == IF m.t = "object" THEN MetadataOf(m.v) ELSE EmptyObject

goal_body(visitor, name, metadata) ==
    Spread([datafast_visitor_id |-> visitor, name |-> name],
           SpreadIf(metadata, "metadata", metadata))

create_goal_request(p, apiKey) ==
    Post("/goals", apiKey,
         goal_body(p.datafast_visitor_id, p.name, p.metadata),
         MetadataValue(p.metadata))

GoalNoteUndistinguished(status) ==
    IF status = 400 \/ status = 404
    THEN <<" (Note: This might be because the visitor is detected as a bot or has no prior pageviews)">>
    ELSE <<>>
\* the note create_goal and create_revenue_goal add for a 400 or a 404
GoalNote(status) ==
    IF status = 400
    THEN <<" (Note: This might be because the visitor is detected as a bot or has no prior pageviews)">>
    ELSE IF status = 404
    THEN <<" (Note: This might be because the visitor has no prior pageviews)">>
    ELSE <<>>

create_goal_result_swallowing(p, o) ==
    CatchNetworkError(
        IF o.kind = "reject" THEN Throw(FetchError)
        ELSE IF ~ResponseOk(o.status)
        THEN Return(Failure(ErrorLine(o) \o GoalNote(o.status)))
        ELSE Return(Plain(<<"(check) Goal created successfully!\nMessage: ",
                            Render(IF o.body.parses THEN o.body.message ELSE U),
                            "\nEvent ID: ",
                            Render(OrElse(IF o.body.parses THEN o.body.event_id
                                          ELSE U, Str("N/A")))>>)))
create_goal_result(p, o) ==
    CatchNetworkError(
        IF o.kind = "reject" THEN Throw(FetchError)
        ELSE IF ~ResponseOk(o.status)
        THEN Return(Failure(ErrorLine(o) \o GoalNote(o.status)))
        ELSE IF ~o.body.parses THEN Throw(SyntaxError)
        ELSE Return(Plain(<<"(check) Goal created successfully!\nMessage: ",
                            Render(o.body.message),
                            "\nEvent ID: ",
                            Render(OrElse(o.body.event_id, Str("N/A")))>>)))

create_goal ==
    \E args \in GoalArgs :
        Start("create_goal", args,
              create_goal_request(SchemaParse("create_goal", args), props.apiKey))

create_goal_response ==
    /\ Awaiting("create_goal")
    /\ \E o \in WriteOutcomes : Finish(o, create_goal_result(params, o))

(***************************************************************************)
(* Number formatting.                                                      *)
(***************************************************************************)
TwoDigits(n) == IF n < 10 THEN "0" \o ToString(n) ELSE ToString(n)

\* (x).toFixed(2) of a number given in hundredths
ToFixed2(hundredths) ==
    ToString(hundredths \div 100) \o "." \o TwoDigits(hundredths % 100)

\* (x).toFixed(1) of a number given in tenths
ToFixed1(tenths) == ToString(tenths \div 10) \o "." \o ToString(tenths % 10)

\* Math.round(ms / (1000 * 60 * 60 * 24))
RoundDays(ms) == (ms + 43200000) \div 86400000

\* names.join(", ")
RECURSIVE Join(_)
Join(names) ==
    IF names = <<>> THEN ""
    ELSE IF Len(names) = 1 THEN names[1]
    ELSE names[1] \o ", " \o Join(Tail(names))

\* new Date(x).toLocaleString()
LocaleString(x) == IF x.t = "undefined" THEN "Invalid Date" ELSE x.v

(***************************************************************************)
(* get_visitor_data                                                        *)
(***************************************************************************)
visitor_request(p, apiKey) == Get("/visitors/", p.datafast_visitor_id, apiKey)

\* params.ref || params.utm_source || "Direct"
TrafficSource(tp) == Render(OrElse(OrElse(tp.ref, tp.utm_source), Str("Direct")))

\* reading a property of a sub-object that the response does not have
VisitorInfoFaults(d) ==
    \/ d.identity.present /\ ~d.identity.parts
    \/ d.prediction.present /\ ~d.prediction.hasExpectedValue

IdentityInfo(i) ==
    IF ~i.present THEN <<>>
    ELSE <<"(globe) Location: ", Render(i.city), ", ", Render(i.country), " (",
           Render(i.countryCode), ")\n",
           "(desktop) Device: desktop - Chrome 120 on macOS\n",
           "(ruler) Viewport: 1280x720\n">>
         \o (IF i.params.present
             THEN <<"(link) Traffic Source: ", TrafficSource(i.params), "\n">>
             ELSE <<>>)

ActivityInfo(a) ==
    IF ~a.present THEN <<>>
    ELSE <<"\n(chart) Activity:\n",
           "   - Visits: ", Render(a.visitCount), "\n",
           "   - Pageviews: ", Render(a.pageViewCount), "\n",
           "   - First visit: ", LocaleString(a.firstVisitAt), "\n",
           "   - Time since first visit: ",
           ToString(RoundDays(a.timeSinceFirstVisit)), " days\n",
           "   - Current URL: ", Render(a.currentUrl), "\n">>
         \o (IF Len(a.completedCustomGoals) > 0
             THEN <<"   - Completed goals: ", Join(a.completedCustomGoals), "\n">>
             ELSE <<>>)

PredictionInfo(pr) ==
    IF pr.present
    THEN <<"\n(target) Prediction:\n",
           "   - Conversion score: ", ToString(pr.score), "/100\n",
           "   - Conversion rate: ", ToFixed2(pr.conversionRate), "%\n",
           "   - Expected value: $", ToFixed2(pr.expectedValue), "\n",
           "   - Confidence: ", ToFixed1(pr.confidence), "%\n">>
    ELSE <<"\n(target) Prediction: Not available (visitor might be a customer or revenue attribution isn't set up)\n">>

VisitorInfo(d) ==
    <<"(chart) Visitor Data for ID: ", Render(d.visitorId), "\n\n">>
    \o IdentityInfo(d.identity) \o ActivityInfo(d.activity)
    \o PredictionInfo(d.prediction)

ExpectedFormatStatusOnly(body) == body.status = Str("success")
\* result.status === "success" && result.data
ExpectedFormat(body) == body.status = Str("success") /\ body.data.present

BotNote(status) ==
    IF status = 400
    THEN <<" (Note: This might be because the visitor is detected as a bot)">>
    ELSE <<>>

get_visitor_data_result(p, o) ==
    CatchNetworkError(
        IF o.kind = "reject" THEN Throw(FetchError)
        ELSE IF ~ResponseOk(o.status)
        THEN Return(Failure(ErrorLine(o) \o BotNote(o.status)))
        ELSE IF ~o.body.parses THEN Throw(SyntaxError)
        ELSE IF ExpectedFormat(o.body)
        THEN IF VisitorInfoFaults(o.body.data)
             THEN Throw(TypeError)
             ELSE Return(Plain(VisitorInfo(o.body.data)))
        ELSE Return(Plain(<<"Unexpected response format from DataFast API">>)))

get_visitor_data ==
    \E args \in VisitorArgs :
        Start("get_visitor_data", args,
              visitor_request(SchemaParse("get_visitor_data", args),
                              props.apiKey))

get_visitor_data_response ==
    /\ Awaiting("get_visitor_data")
    /\ \E o \in ReadOutcomes : Finish(o, get_visitor_data_result(params, o))

(***************************************************************************)
(* validate_visitor                                                        *)
(***************************************************************************)
\* the catch block of validate_visitor
CatchValidateError(p, c) ==
    IF c.kind = "throw"
    THEN Return(Failure(<<"Network error validating visitor \"",
                          Render(p.datafast_visitor_id), "\": ",
                          ErrorMessage(c.error, "Unknown error occurred")>>))
    ELSE c

validate_visitor_result_upstream(p, o) ==
    CatchValidateError(p,
        IF o.kind = "reject" THEN Throw(FetchError)
        ELSE IF ResponseOk(o.status)
        THEN IF ~o.body.parses THEN Throw(SyntaxError)
             ELSE IF ExpectedFormat(o.body)
             THEN Return(Plain(<<"(check) Visitor ID \"",
                                 Render(p.datafast_visitor_id),
                                 "\" is valid and has data available.">>))
             ELSE Return(Failure(<<"(cross) Visitor ID \"",
                                   Render(p.datafast_visitor_id),
                                   "\" returned unexpected response format.">>))
        ELSE Return(Failure(
                <<"(cross) Visitor ID \"", Render(p.datafast_visitor_id),
                  "\" is invalid: ", ErrorMessageOf(o)>>)))
validate_visitor_result(p, o) ==
    CatchValidateError(p,
        IF o.kind = "reject" THEN Throw(FetchError)
        ELSE IF ResponseOk(o.status)
        THEN IF ~o.body.parses THEN Throw(SyntaxError)
             ELSE IF ExpectedFormat(o.body)
             THEN Return(Plain(<<"(check) Visitor ID \"",
                                 Render(p.datafast_visitor_id),
                                 "\" is valid and has data available.">>))
             ELSE Return(Failure(<<"(cross) Visitor ID \"",
                                   Render(p.datafast_visitor_id),
                                   "\" returned unexpected response format.">>))
        ELSE Return(Failure(
                <<"(cross) Visitor ID \"", Render(p.datafast_visitor_id),
                  "\" is invalid: ",
                  IF o.status = 400 THEN "Detected as bot or invalid format"
                  ELSE IF o.status = 404
                  THEN "No pageviews found - visitor needs to visit your site first"
                  ELSE ErrorMessageOf(o)>>)))

validate_visitor ==
    \E args \in VisitorArgs :
        Start("validate_visitor", args,
              visitor_request(SchemaParse("validate_visitor", args),
                              props.apiKey))

validate_visitor_response ==
    /\ Awaiting("validate_visitor")
    /\ \E o \in ReadOutcomes : Finish(o, validate_visitor_result(params, o))

(***************************************************************************)
(* get_analytics_summary                                                   *)
(***************************************************************************)
\* new Date(x).toLocaleDateString()
LocaleDateString(x) == IF x.t = "undefined" THEN "Invalid Date" ELSE x.v

ActivitySummary(a) ==
    IF ~a.present THEN <<>>
    ELSE <<"(chart) Activity Summary:\n",
           "   - Total visits: ", Render(a.visitCount), "\n",
           "   - Pageviews: ", Render(a.pageViewCount), "\n",
           "   - First visit: ", LocaleDateString(a.firstVisitAt), "\n">>
         \o (IF a.timeSinceFirstVisit # 0
             THEN <<"   - Customer age: ",
                    ToString(RoundDays(a.timeSinceFirstVisit)), " days\n">>
             ELSE <<>>)
         \o (IF Len(a.completedCustomGoals) > 0
             THEN <<"   - Completed goals: ",
                    ToString(Len(a.completedCustomGoals)), "\n">>
             ELSE <<>>)

PredictionSummary(include_prediction, pr) ==
    IF ~(Truthy(include_prediction) /\ pr.present) THEN <<>>
    ELSE <<"\n(target) Conversion Prediction:\n",
           "   - Score: ", ToString(pr.score), "/100 (",
           IF pr.score >= 50 THEN "High" ELSE "Low", " potential)\n">>
         \o (IF pr.hasExpectedValue /\ pr.expectedValue # 0
             THEN <<"   - Expected value: $", ToFixed2(pr.expectedValue), "\n">>
             ELSE <<>>)
         \o (IF pr.confidence # 0
             THEN <<"   - Confidence: ", ToFixed1(pr.confidence), "%\n">>
             ELSE <<>>)

SourceSummary(i) ==
    IF i.present /\ i.params.present
    THEN <<"\n(link) Traffic Source: ", TrafficSource(i.params), "\n">>
    ELSE <<>>

LocationSummary(i) ==
    IF i.present /\ Truthy(i.city) /\ Truthy(i.country)
    THEN <<"\n(globe) Location: ", Render(i.city), ", ", Render(i.country), "\n">>
    ELSE <<>>

AnalyticsSummary(p, d) ==
    <<"(chart) Quick Analytics for Visitor ", Render(d.visitorId), "\n\n">>
    \o ActivitySummary(d.activity)
    \o PredictionSummary(p.include_prediction, d.prediction)
    \o SourceSummary(d.identity) \o LocationSummary(d.identity)

get_analytics_summary_result(p, o) ==
    CatchNetworkError(
        IF o.kind = "reject" THEN Throw(FetchError)
        ELSE IF ~ResponseOk(o.status) THEN Return(Failure(ErrorLine(o)))
        ELSE IF ~o.body.parses THEN Throw(SyntaxError)
        ELSE IF ExpectedFormat(o.body)
        THEN Return(Plain(AnalyticsSummary(p, o.body.data)))
        ELSE Return(Plain(<<"Unexpected response format from DataFast API">>)))

get_analytics_summary ==
    \E args \in SummaryArgs :
        Start("get_analytics_summary", args,
              visitor_request(SchemaParse("get_analytics_summary", args),
                              props.apiKey))

get_analytics_summary_response ==
    /\ Awaiting("get_analytics_summary")
    /\ \E o \in ReadOutcomes :
          Finish(o, get_analytics_summary_result(params, o))

(***************************************************************************)
(* track_payment: the payment tool of the DataFa.st onboarding server.     *)
(* Its handler has no try/catch.                                           *)
(***************************************************************************)
track_payment_body(p) ==
    [datafast_visitor_id |-> p.visitorId,
     amount |-> p.amount,
     currency |-> p.currency,
     transaction_id |-> p.transactionId,
     email |-> p.email,
     name |-> p.name,
     customer_id |-> p.customerId,
     renewal |-> p.renewal,
     refunded |-> p.refunded]

track_payment_request(p, apiKey) ==
    Post("/payments", apiKey, track_payment_body(p), EmptyObject)

track_payment_result(p, o) ==
    IF o.kind = "reject" THEN Throw(FetchError)
    ELSE IF ~ResponseOk(o.status)
    THEN Return(Failure(<<"(cross) **Payment Tracking Failed**\n">>
                        \o ErrorLine(o)
                        \o <<"\n\n**Common issues:**\n- Invalid visitor ID\n- Duplicate transaction ID\n- Invalid currency code\n- Missing required fields">>))
    ELSE IF ~o.body.parses THEN Throw(SyntaxError)
    ELSE Return(Plain(<<"(money) **Payment Tracked Successfully!**\n\nTransaction ID: ",
                        Render(o.body.transaction_id),
                        "\nAmount: ", Render(p.amount), " ", Render(p.currency),
                        "\nMessage: ", Render(o.body.message),
                        "\n\n(chart) This revenue is now attributed to the visitor's traffic source in your DataFa.st dashboard.">>))

track_payment ==
    \E args \in TrackPaymentArgs :
        Start("track_payment", args,
              track_payment_request(SchemaParse("track_payment", args),
                                    props.apiKey))

track_payment_response ==
    /\ Awaiting("track_payment")
    /\ \E o \in WriteOutcomes : Finish(o, track_payment_result(params, o))

(***************************************************************************)
(* create_goal of the onboarding server. Its handler has no try/catch.     *)
(***************************************************************************)
onboarding_goal_body(p) ==
    [datafast_visitor_id |-> p.visitorId, name |-> p.name,
     metadata |-> p.metadata]

onboarding_create_goal_request(p, apiKey) ==
    Post("/goals", apiKey, onboarding_goal_body(p), MetadataValue(p.metadata))

onboarding_create_goal_result(p, o) ==
    IF o.kind = "reject" THEN Throw(FetchError)
    ELSE IF ~ResponseOk(o.status)
    THEN Return(Failure(<<"(cross) **Goal Creation Failed**\n">>
                        \o ErrorLine(o)
                        \o <<"\n\n**Common issues:**\n- Visitor must have at least one prior pageview\n- Goal name must be lowercase, max 32 characters\n- Invalid visitor ID">>))
    ELSE IF ~o.body.parses THEN Throw(SyntaxError)
    ELSE Return(Plain(<<"(check) **Goal \"", Render(p.name),
                        "\" Created Successfully!**\n\nEvent ID: ",
                        Render(o.body.event_id),
                        "\nMessage: ", Render(o.body.message),
                        "\n\n(target) This goal will now be tracked in your DataFa.st analytics dashboard.">>))

onboarding_create_goal ==
    \E args \in OnboardingGoalArgs :
        Start("onboarding_create_goal", args,
              onboarding_create_goal_request(
                  SchemaParse("onboarding_create_goal", args), props.apiKey))

onboarding_create_goal_response ==
    /\ Awaiting("onboarding_create_goal")
    /\ \E o \in WriteOutcomes :
          Finish(o, onboarding_create_goal_result(params, o))

(***************************************************************************)
(* get_visitor_data of the onboarding server. Its handler has no           *)
(* try/catch, and it reads identity, activity and prediction from the top  *)
(* level of the response body.                                             *)
(***************************************************************************)
onboarding_visitor_request(p, apiKey) == Get("/visitors/", p.visitorId, apiKey)

\* reading a property of data.identity, data.activity or data.prediction
\* that the body does not have, or expected_revenue.toFixed without the field
OnboardingVisitorFaults(b) ==
    \/ ~b.identity.present
    \/ ~b.activity.present
    \/ ~b.prediction.present
    \/ ~b.prediction.hasExpectedValue

\* a string field of data.identity other than the location
IdentityPart(i, value) == IF i.parts THEN value ELSE "undefined"

OnboardingIdentity(i) ==
    <<"**(globe) Identity & Location:**\n",
      "- Location: ", Render(i.city), ", ", Render(i.region), ", ",
      Render(i.country), "\n",
      "- Browser: ", IdentityPart(i, "Chrome"), "\n",
      "- Device: ", IdentityPart(i, "desktop"), "\n",
      "- OS: ", IdentityPart(i, "macOS"), "\n\n">>

OnboardingActivity(a) ==
    <<"**(chart) Activity:**\n",
      "- Visits: ", Render(a.visitCount), "\n",
      "- Pageviews: ", Render(a.pageViewCount), "\n",
      "- First visit: ", Render(a.firstVisitAt), "\n",
      "- Last visit: ", Render(a.lastVisitAt), "\n",
      "- Current URL: ", Render(a.currentUrl), "\n">>
    \o (IF Len(a.completedCustomGoals) > 0
        THEN <<"- Completed goals: ", Join(a.completedCustomGoals), "\n">>
        ELSE <<>>)

\* (conversion_rate * 100).toFixed(1) of a rate given in 1/10000
RateToFixed1(rate) == ToFixed1((rate + 5) \div 10)

OnboardingPrediction(pr) ==
    <<"\n**(target) Conversion Prediction:**\n",
      "- Conversion Score: ", ToString(pr.score), "/100\n",
      "- Conversion Rate: ", RateToFixed1(pr.conversionRate), "%\n",
      "- Expected Revenue: $", ToFixed2(pr.expectedValue), "\n",
      "- Confidence: ", ToFixed1(pr.confidence), "%\n\n">>

LowThreshold == 30
HighThreshold == 70

RecommendationInclusive(score) ==
    IF score <= LowThreshold
    THEN <<"(bulb) **Recommendation:** Low conversion likelihood - consider showing lead magnets or special offers.\n">>
    ELSE IF score >= HighThreshold
    THEN <<"(bulb) **Recommendation:** High conversion potential - create urgency or showcase premium features.\n">>
    ELSE <<>>
\* the actionable insight after the prediction section
Recommendation(score) ==
    IF score < LowThreshold
    THEN <<"(bulb) **Recommendation:** Low conversion likelihood - consider showing lead magnets or special offers.\n">>
    ELSE IF score > HighThreshold
    THEN <<"(bulb) **Recommendation:** High conversion potential - create urgency or showcase premium features.\n">>
    ELSE <<>>

onboarding_get_visitor_data_result(p, o) ==
    IF o.kind = "reject" THEN Throw(FetchError)
    ELSE IF ~ResponseOk(o.status)
    THEN Return(Failure(<<"(cross) **Visitor Data Retrieval Failed**\n">>
                        \o ErrorLine(o)
                        \o <<"\n\n**Common issues:**\n- Invalid visitor ID\n- Visitor not found\n- API key permissions">>))
    ELSE IF ~o.body.parses THEN Throw(SyntaxError)
    ELSE IF OnboardingVisitorFaults(o.body) THEN Throw(TypeError)
    ELSE Return(Plain(<<"(person) **Visitor Analytics Data**\n\n">>
                      \o OnboardingIdentity(o.body.identity)
                      \o OnboardingActivity(o.body.activity)
                      \o OnboardingPrediction(o.body.prediction)
                      \o Recommendation(o.body.prediction.score)))

onboarding_get_visitor_data ==
    \E args \in OnboardingVisitorArgs :
        Start("onboarding_get_visitor_data", args,
              onboarding_visitor_request(
                  SchemaParse("onboarding_get_visitor_data", args),
                  props.apiKey))

onboarding_get_visitor_data_response ==
    /\ Awaiting("onboarding_get_visitor_data")
    /\ \E o \in VisitorOutcomes :
          Finish(o, onboarding_get_visitor_data_result(params, o))

(***************************************************************************)
(* create_revenue_goal: a goals call, then a payments call.                *)
(***************************************************************************)
revenue_goal_metadata_derived_last(p) ==
    Spread(MetadataValue(p.metadata),
           [revenue_amount |-> NumToString(p.revenue_amount),
            currency |-> p.currency])
revenue_goal_metadata(p) ==
    Spread([revenue_amount |-> NumToString(p.revenue_amount),
            currency |-> p.currency],
           MetadataValue(p.metadata))

revenue_goal_request(p, apiKey) ==
    Post("/goals", apiKey,
         [datafast_visitor_id |-> p.datafast_visitor_id,
          name |-> p.goal_name,
          metadata |-> Obj("metadata")],
         revenue_goal_metadata(p))

\* `goal_${goal_name}_${Date.now()}`
RevenueTransactionId(goal_name, clock) ==
    Str("goal_" \o Render(goal_name) \o "_" \o ToString(clock))

revenue_payment_request_without_flags(p, apiKey, clock) ==
    Post("/payments", apiKey,
         [amount |-> p.revenue_amount,
          currency |-> p.currency,
          transaction_id |-> RevenueTransactionId(p.goal_name, clock),
          datafast_visitor_id |-> p.datafast_visitor_id],
         EmptyObject)
revenue_payment_request(p, apiKey, clock) ==
    Post("/payments", apiKey,
         [amount |-> p.revenue_amount,
          currency |-> p.currency,
          transaction_id |-> RevenueTransactionId(p.goal_name, clock),
          datafast_visitor_id |-> p.datafast_visitor_id,
          renewal |-> Bool(FALSE),
          refunded |-> Bool(FALSE)],
         EmptyObject)

\* from the goals response to the payments call
revenue_goal_created_unchecked(p, apiKey, clock, o) ==
    CatchNetworkError(
        IF o.kind = "reject" THEN Throw(FetchError)
        ELSE Call(revenue_payment_request(p, apiKey, clock)))

revenue_goal_created(p, apiKey, clock, o) ==
    CatchNetworkError(
        IF o.kind = "reject" THEN Throw(FetchError)
        ELSE IF ~ResponseOk(o.status)
        THEN Return(Failure(ErrorLine(o) \o GoalNote(o.status)))
        ELSE IF ~o.body.parses THEN Throw(SyntaxError)
        ELSE Call(revenue_payment_request(p, apiKey, clock)))

\* from the payments response to the return
revenue_payment_tracked_strict(goal, o) ==
    CatchNetworkError(
        IF o.kind = "reject" THEN Throw(FetchError)
        ELSE IF ~ResponseOk(o.status) THEN Return(Failure(ErrorLine(o)))
        ELSE IF ~o.body.parses THEN Throw(SyntaxError)
        ELSE Return(Plain(
                <<"(check) Revenue goal created successfully!\n(target) Goal: ",
                  Render(goal.message), "\n",
                  "\n(money) Revenue tracked: ", Render(o.body.message)>>)))

revenue_payment_tracked(goal, o) ==
    CatchNetworkError(
        IF o.kind = "reject" THEN Throw(FetchError)
        ELSE IF ResponseOk(o.status) /\ ~o.body.parses THEN Throw(SyntaxError)
        ELSE Return(Plain(
                <<"(check) Revenue goal created successfully!\n(target) Goal: ",
                  Render(goal.message), "\n">>
                \o (IF ResponseOk(o.status)
                    THEN <<"\n(money) Revenue tracked: ", Render(o.body.message)>>
                    ELSE <<"\n(warn) Goal created but revenue tracking failed">>))))

create_revenue_goal ==
    \E args \in RevenueGoalArgs :
        Start("create_revenue_goal", args,
              revenue_goal_request(SchemaParse("create_revenue_goal", args),
                                   props.apiKey))

create_revenue_goal_goal_response ==
    /\ Awaiting("create_revenue_goal")
    /\ \E o \in WriteOutcomes :
          LET c == revenue_goal_created(params, props.apiKey, now, o) IN
          /\ replies' = Append(replies, o)
          /\ IF c.kind = "call"
             THEN /\ pc' = "awaiting_payment"
                  /\ calls' = Append(calls, c.request)
                  /\ goalResult' = o.body
                  /\ UNCHANGED <<envelope, thrown>>
             ELSE /\ End(c)
                  /\ UNCHANGED <<calls, goalResult>>
    /\ UNCHANGED <<props, inbound, invocations, tool, params, idx, results, now>>

create_revenue_goal_payment_response ==
    /\ pc = "awaiting_payment"
    /\ tool = "create_revenue_goal"
    /\ \E o \in WriteOutcomes : Finish(o, revenue_payment_tracked(goalResult, o))

(***************************************************************************)
(* batch_create_goals: one goals call per item, one after the other.        *)
(***************************************************************************)
batch_goal_request(goal, apiKey) ==
    Post("/goals", apiKey,
         goal_body(goal.datafast_visitor_id, goal.name, goal.metadata),
         MetadataValue(goal.metadata))

ResultWithoutVisitor(goal, success, message, event_id, error) ==
    [goal |-> goal.name, visitor |-> U,
     success |-> success, message |-> message, event_id |-> event_id,
     error |-> error]
Result(goal, success, message, event_id, error) ==
    [goal |-> goal.name, visitor |-> goal.datafast_visitor_id,
     success |-> success, message |-> message, event_id |-> event_id,
     error |-> error]

\* the body of the loop after the fetch: the record pushed for the item
batch_item_result_unparsed(goal, o) ==
    IF o.kind = "reject"
    THEN Result(goal, FALSE, U, U, ErrorMessage(FetchError, "Unknown error"))
    ELSE IF ResponseOk(o.status)
    THEN Result(goal, TRUE, IF o.body.parses THEN o.body.message ELSE U,
                IF o.body.parses THEN o.body.event_id ELSE U, "")
    ELSE Result(goal, FALSE, U, U, ErrorMessageOf(o))

batch_item_result(goal, o) ==
    IF o.kind = "reject"
    THEN Result(goal, FALSE, U, U, ErrorMessage(FetchError, "Unknown error"))
    ELSE IF ResponseOk(o.status)
    THEN IF o.body.parses
         THEN Result(goal, TRUE, o.body.message, o.body.event_id, "")
         ELSE Result(goal, FALSE, U, U, ErrorMessage(SyntaxError, "Unknown error"))
    ELSE Result(goal, FALSE, U, U, ErrorMessageOf(o))

\* results.filter(predicate).length
RECURSIVE CountSuccess(_)
CountSuccess(rs) ==
    IF rs = <<>> THEN 0
    ELSE (IF Head(rs).success THEN 1 ELSE 0) + CountSuccess(Tail(rs))

RECURSIVE CountFailure(_)
CountFailure(rs) ==
    IF rs = <<>> THEN 0
    ELSE (IF ~Head(rs).success THEN 1 ELSE 0) + CountFailure(Tail(rs))

ResultLine(r) ==
    IF r.success
    THEN <<"   (check) ", Render(r.goal), " for ", Render(r.visitor), ": ",
           Render(r.message), "\n">>
    ELSE <<"   (cross) ", Render(r.goal), " for ", Render(r.visitor), ": ",
           r.error, "\n">>

RECURSIVE ResultLines(_)
ResultLines(rs) ==
    IF rs = <<>> THEN <<>> ELSE ResultLine(Head(rs)) \o ResultLines(Tail(rs))

batch_summary(rs) ==
    Return(Plain(<<"(check) Batch goal creation completed!\n",
                   "   - Successful: ", ToString(CountSuccess(rs)), "\n",
                   "   - Failed: ", ToString(CountFailure(rs)), "\n\n",
                   "(clipboard) Results:\n">>
                 \o ResultLines(rs)))

NextItemRetrying(i, n, r) ==
    IF ~r.success THEN i ELSE IF i < n THEN i + 1 ELSE 0
\* for (const goal of goals): the index of the item the loop takes after it
\* pushed record r for item i of n; 0 when the loop ends
NextItemUnlessFailed(i, n, r) == IF i < n /\ r.success THEN i + 1 ELSE 0
NextItem(i, n, r) == IF i < n THEN i + 1 ELSE 0

\* the loop is entered with the first item, or not at all for an empty array
batch_create_goals ==
    \E args \in BatchArgs :
        IF SchemaAccepts("batch_create_goals", args) /\ args.goals = <<>>
        THEN /\ CanInvoke
             /\ tool' = "batch_create_goals"
             /\ params' = SchemaParse("batch_create_goals", args)
             /\ calls' = <<>>
             /\ replies' = <<>>
             /\ idx' = 0
             /\ results' = <<>>
             /\ goalResult' = EmptyJson
             /\ End(batch_summary(<<>>))
             /\ UNCHANGED <<props, inbound, invocations, now>>
        ELSE StartAt("batch_create_goals", args,
                     batch_goal_request(
                         SchemaParse("batch_create_goals", args).goals[1],
                         props.apiKey),
                     1)

batch_create_goals_response_unrecorded ==
    /\ Awaiting("batch_create_goals")
    /\ UNCHANGED vars
batch_create_goals_response ==
    /\ Awaiting("batch_create_goals")
    /\ \E o \in BatchOutcomes :
          LET r == batch_item_result(params.goals[idx], o)
              pushed == Append(results, r)
              next == NextItem(idx, Len(params.goals), r)
          IN  /\ replies' = Append(replies, o)
              /\ results' = pushed
              /\ idx' = next
              /\ IF next # 0
                 THEN /\ calls' = Append(calls,
                             batch_goal_request(params.goals[next], props.apiKey))
                      /\ UNCHANGED <<pc, envelope, thrown>>
                 ELSE /\ End(batch_summary(pushed))
                      /\ UNCHANGED calls
    /\ UNCHANGED <<props, inbound, invocations, tool, params, goalResult, now>>

(***************************************************************************)
(* The session's validation of a call that the schema does not accept.     *)
(***************************************************************************)
schema_rejects ==
    \E t \in Tools : \E args \in ArgsOf(t) : SchemaRejects(t, args)

Next ==
    \/ fetch
    \/ schema_rejects
    \/ ship
    \/ create_payment
    \/ create_payment_response
    \/ create_goal
    \/ create_goal_response
    \/ get_visitor_data
    \/ get_visitor_data_response
    \/ validate_visitor
    \/ validate_visitor_response
    \/ get_analytics_summary
    \/ get_analytics_summary_response
    \/ track_payment
    \/ track_payment_response
    \/ onboarding_create_goal
    \/ onboarding_create_goal_response
    \/ onboarding_get_visitor_data
    \/ onboarding_get_visitor_data_response
    \/ create_revenue_goal
    \/ create_revenue_goal_goal_response
    \/ create_revenue_goal_payment_response
    \/ batch_create_goals
    \/ batch_create_goals_response

Spec == Init /\ [][Next]_vars

(***************************************************************************)
(* Invocations of create_revenue_goal in flight at once: the session       *)
(* starts a handler for each tool call it receives and does not wait for   *)
(* the one before; each handler runs from one await to the next.           *)
(***************************************************************************)
ConcurrentArgs ==
    [datafast_visitor_id : VisitorIds,
     goal_name : {Str("signup"), Str("upgrade")},
     revenue_amount : {Num("29.99")},
     currency : {U},
     metadata : {U}]

ConcurrentOutcomes ==
    {Rejected,
     Response(200, Body(TRUE, U, Str("ok"), Str("tx_1"), Str("e1"), U, NoData)),
     Response(500, Unparseable)}

concurrent_create_revenue_goal ==
    /\ props # NoProps
    /\ \E i \in Invocations, args \in ConcurrentArgs :
          LET p == SchemaParse("create_revenue_goal", args) IN
          /\ invocations[i].pc = "idle"
          /\ invocations' =
                [invocations EXCEPT
                    ![i] = Invocation(p, "awaiting",
                                      <<revenue_goal_request(p, props.apiKey)>>,
                                      <<>>, EmptyJson, NoEnvelope)]
    /\ UNCHANGED <<props, inbound, Handler, now>>

concurrent_goal_response ==
    /\ \E i \in Invocations, o \in ConcurrentOutcomes :
          LET v == invocations[i]
              c == revenue_goal_created(v.params, props.apiKey, now, o) IN
          /\ v.pc = "awaiting"
          /\ invocations' =
                [invocations EXCEPT
                    ![i] = IF c.kind = "call"
                           THEN Invocation(v.params, "awaiting_payment",
                                           Append(v.calls, c.request),
                                           Append(v.replies, o), o.body,
                                           NoEnvelope)
                           ELSE Invocation(v.params, "returned", v.calls,
                                           Append(v.replies, o), v.goalResult,
                                           c.env)]
    /\ UNCHANGED <<props, inbound, Handler, now>>

concurrent_payment_response ==
    /\ \E i \in Invocations, o \in ConcurrentOutcomes :
          LET v == invocations[i]
              c == revenue_payment_tracked(v.goalResult, o) IN
          /\ v.pc = "awaiting_payment"
          /\ invocations' =
                [invocations EXCEPT
                    ![i] = Invocation(v.params, "returned", v.calls,
                                      Append(v.replies, o), v.goalResult,
                                      c.env)]
    /\ UNCHANGED <<props, inbound, Handler, now>>

concurrent_ship ==
    /\ \E i \in Invocations :
          /\ invocations[i].pc = "returned"
          /\ invocations' = [invocations EXCEPT ![i] = NoInvocation]
    /\ UNCHANGED <<props, inbound, Handler, now>>

NextConcurrent ==
    \/ fetch
    \/ Tick
    \/ concurrent_create_revenue_goal
    \/ concurrent_goal_response
    \/ concurrent_payment_response
    \/ concurrent_ship

Concurrent == Init /\ [][NextConcurrent]_vars

(***************************************************************************)
(* The tools of the API server when every outbound call in flight gets its *)
(* outcome: fetch settles (it resolves with a response or rejects), and    *)
(* the handler awaiting it resumes with that outcome.                       *)
(***************************************************************************)
Responses ==
    \/ create_payment_response
    \/ create_goal_response
    \/ get_visitor_data_response
    \/ validate_visitor_response
    \/ get_analytics_summary_response
    \/ create_revenue_goal_goal_response
    \/ create_revenue_goal_payment_response
    \/ batch_create_goals_response

NextLive ==
    \/ fetch
    \/ ship
    \/ create_payment
    \/ create_goal
    \/ get_visitor_data
    \/ validate_visitor
    \/ get_analytics_summary
    \/ create_revenue_goal
    \/ batch_create_goals
    \/ Responses

Live == Init /\ [][NextLive]_vars /\ WF_vars(Responses)

(***************************************************************************)
(* Properties.                                                             *)
(***************************************************************************)
\* the outcome of an outbound call, read off the reply itself
TransportFailure(o) == o.kind = "reject"
Non2xx(o) == o.kind = "response" /\ o.status \notin 200..299
Success(o) == o.kind = "response" /\ o.status \in 200..299 /\ o.body.parses
UnparseableSuccess(o) ==
    o.kind = "response" /\ o.status \in 200..299 /\ ~o.body.parses

Ended == pc \in {"returned", "threw"}

GoalSuccessMarker == "(check) Revenue goal created successfully!\n(target) Goal: "
RevenueFailureMarker == "\n(warn) Goal created but revenue tracking failed"

\* C1: in create_revenue_goal, once the goals call got a non-2xx response the
\* handler has returned an envelope with isError = true and the goals call is
\* the only outbound call of the invocation: no payments call is issued.
C1_GoalFailureIsFatal ==
    (tool = "create_revenue_goal" /\ Len(replies) >= 1 /\ Non2xx(replies[1]))
    => /\ pc = "returned"
       /\ envelope.isError
       /\ Len(calls) = 1
       /\ \A i \in 1..Len(calls) : ~IsPaymentsCall(calls[i])

C1_Witness ==
    /\ tool = "create_revenue_goal"
    /\ Len(replies) = 1
    /\ Non2xx(replies[1])
    /\ pc = "returned"
    /\ IsGoalsCall(calls[1])

\* C2: in create_revenue_goal, when the goals call succeeded and the payments
\* call got a non-2xx response, the envelope has isError = false and its text
\* holds the goal success marker and the revenue-tracking failure marker.
C2_PaymentHttpErrorIsInformational ==
    (/\ tool = "create_revenue_goal"
     /\ Len(replies) = 2
     /\ Success(replies[1])
     /\ Non2xx(replies[2]))
    => /\ pc = "returned"
       /\ ~envelope.isError
       /\ Contains(envelope.text, GoalSuccessMarker)
       /\ Contains(envelope.text, RevenueFailureMarker)

C2_Witness ==
    /\ tool = "create_revenue_goal"
    /\ Len(replies) = 2
    /\ Success(replies[1])
    /\ Non2xx(replies[2])
    /\ IsPaymentsCall(calls[2])
    /\ pc = "returned"

\* C3: in create_revenue_goal, once the goals call has succeeded the handler
\* ends with an envelope that is not marked as an error, whatever the outcome
\* of the payments call (non-2xx, transport failure, unparseable 2xx body).
C3_PaymentOutcomeNeverFatal ==
    (/\ tool = "create_revenue_goal"
     /\ Len(replies) = 2
     /\ Success(replies[1]))
    => (pc = "returned" /\ ~envelope.isError)

\* C4: batch_create_goals with n items of which k fail (non-2xx, transport
\* failure, unparseable success body) returns an envelope with isError = false
\* whose summary reports n-k successful and k failed and whose item lines are
\* in input order, line i naming item i and marked by the outcome of item i.
\* (the summary has 8 segments before the item lines, an item line has 7)
BatchFailed == {i \in 1..Len(replies) : ~Success(replies[i])}

C4_BatchSummary ==
    (tool = "batch_create_goals" /\ Ended)
    => LET n == Len(params.goals)
           k == Cardinality(BatchFailed)
           text == envelope.text
       IN  /\ pc = "returned"
           /\ ~envelope.isError
           /\ Len(replies) = n
           /\ Len(text) = 8 + n * 7
           /\ text[2] = "   - Successful: " /\ text[3] = ToString(n - k)
           /\ text[5] = "   - Failed: " /\ text[6] = ToString(k)
           /\ \A i \in 1..n :
                LET at == 8 + (i - 1) * 7 IN
                /\ text[at + 1] = IF i \in BatchFailed
                                  THEN "   (cross) " ELSE "   (check) "
                /\ text[at + 2] = params.goals[i].name.v
                /\ text[at + 4] = params.goals[i].datafast_visitor_id.v

C4_Witness ==
    /\ tool = "batch_create_goals"
    /\ pc = "returned"
    /\ Len(params.goals) = 2
    /\ params.goals[1].name # params.goals[2].name
    /\ UnparseableSuccess(replies[1])
    /\ Success(replies[2])

\* C5: batch_create_goals issues one goals call per item, in input order and
\* one at a time: call i carries item i, a call is issued only when every
\* earlier call has its outcome, and when the handler has ended every item
\* has had its call, whatever the outcomes of the earlier ones.
C5_BatchSequential ==
    (tool = "batch_create_goals" /\ pc # "rejected")
    => LET n == Len(params.goals) IN
       /\ pc \in {"awaiting", "returned"}
       /\ Len(calls) <= n
       /\ \A i \in 1..Len(calls) :
            /\ IsGoalsCall(calls[i])
            /\ calls[i].body.name = params.goals[i].name
            /\ calls[i].body.datafast_visitor_id = params.goals[i].datafast_visitor_id
       /\ pc = "awaiting" => Len(calls) = Len(replies) + 1
       /\ pc = "returned" => Len(calls) = n /\ Len(replies) = n

C5_Witness ==
    /\ tool = "batch_create_goals"
    /\ pc = "returned"
    /\ Len(calls) = 2
    /\ TransportFailure(replies[1])
    /\ calls[1].body.name # calls[2].body.name

\* C6: for each single-call tool of the API server, a call that ends in a
\* non-2xx response or in a transport failure yields an envelope with
\* isError = true.
SingleCallTools ==
    {"create_payment", "create_goal", "get_visitor_data", "validate_visitor",
     "get_analytics_summary"}

C7_ErrorIffNotSuccess ==
    (tool \in SingleCallTools /\ Len(replies) = 1)
    => (pc = "returned" /\ (envelope.isError <=> ~Success(replies[1])))

\* C8: no invocation of a tool handler ends with an exception leaving the
\* handler: whatever the outcome of its calls, the handler returns an envelope.
C8_NoExceptionEscapes == pc # "threw"

\* C9: in the payments call of create_payment (and of track_payment), an
\* optional field the caller did not supply is not a key of the body, and no
\* key of the body has an undefined or null value.
SuppliedAs(key) ==
    IF tool = "track_payment" /\ key = "customer_id" THEN "customerId" ELSE key

OptionalPaymentFields ==
    IF tool = "track_payment"
    THEN {"email", "name", "customer_id"}
    ELSE {"email", "name", "customer_id", "timestamp"}

C9_OmittedNotNull ==
    (tool \in {"create_payment", "track_payment"} /\ Len(calls) >= 1)
    => /\ \A key \in OptionalPaymentFields :
            params[SuppliedAs(key)] = U => key \notin DOMAIN calls[1].body
       /\ "timestamp" \in DOMAIN calls[1].body => tool = "create_payment"
       /\ \A key \in DOMAIN calls[1].body :
            calls[1].body[key].t \notin {"undefined", "null"}

C9_Witness ==
    /\ tool = "create_payment"
    /\ Len(calls) = 1
    /\ params.email = U
    /\ params.timestamp = U
    /\ params.name # U
    /\ "name" \in DOMAIN calls[1].body

\* C10: no goals call is issued for a goal name that is not made of lowercase
\* letters, digits, underscores and hyphens or that is longer than 32
\* characters: the schema rejects such a call.
C10_BadGoalNameRejected ==
    \A i \in 1..Len(calls) :
        IsGoalsCall(calls[i]) => IsDocumentedGoalName(calls[i].body.name)

\* the text returned for the invocation holds the numeric status of reply i
RendersStatus(i) == Contains(envelope.text, ToString(replies[i].status))

\* C11 (as stated): whenever a handler has returned after a call of its
\* invocation got a non-2xx response, the returned text holds the numeric
\* status of that response; this for every tool, validate_visitor, the item
\* lines of batch_create_goals and the revenue-failure text of
\* create_revenue_goal included.
C11_StatusInEveryErrorText ==
    (pc = "returned")
    => \A i \in 1..Len(replies) : Non2xx(replies[i]) => RendersStatus(i)

\* the tools whose text for a non-2xx response starts from the line
\* `Error ${response.status}: ...`
StatusTools ==
    {"create_payment", "create_goal", "get_visitor_data",
     "get_analytics_summary", "track_payment", "onboarding_create_goal",
     "onboarding_get_visitor_data"}

\* C11 (amended): the text returned after a non-2xx response holds the numeric
\* status of that response exactly when the response is the one to the call of
\* create_payment, create_goal, get_visitor_data, get_analytics_summary or
\* track_payment, or to the goals call of create_revenue_goal; the texts of
\* validate_visitor, the item lines of batch_create_goals and the
\* revenue-failure text of create_revenue_goal do not hold it.
C11_StatusWhereRendered ==
    (pc = "returned")
    => \A i \in 1..Len(replies) :
          Non2xx(replies[i])
          => (RendersStatus(i)
              <=> \/ tool \in StatusTools
                  \/ tool = "create_revenue_goal" /\ i = 1)

C11_Witness ==
    /\ tool = "create_revenue_goal"
    /\ pc = "returned"
    /\ Len(replies) = 2
    /\ Non2xx(replies[2])
    /\ Contains(envelope.text, RevenueFailureMarker)

\* the static hint list of a failed payment
PaymentHints ==
    "\n\n**Common issues:**\n- Invalid visitor ID\n- Duplicate transaction ID\n- Invalid currency code\n- Missing required fields"

\* the text holds value right after the segment label
RendersAfter(text, label, value) ==
    \E i \in 1..(Len(text) - 1) : text[i] = label /\ text[i + 1] = value

PaymentSuccessRendered ==
    /\ pc = "returned"
    /\ RendersAfter(envelope.text, "\nTransaction ID: ",
                    Render(replies[1].body.transaction_id))
    /\ RendersAfter(envelope.text,
                    "(check) Payment recorded successfully!\nMessage: ",
                    Render(replies[1].body.message))

\* C12 (as stated): create_payment renders the upstream transaction_id and
\* message for a Success outcome, and for every other outcome a text that
\* holds the static hint list.
C12_PaymentFailureRendersHints ==
    (tool = "create_payment" /\ Len(replies) = 1)
    => IF Success(replies[1])
       THEN PaymentSuccessRendered
       ELSE pc = "returned" /\ Contains(envelope.text, PaymentHints)

\* C12 (amended): create_payment renders the upstream transaction_id and
\* message for a Success outcome; for a non-2xx response its text is the line
\* "Error <status>: <message>" and for a transport failure or a 2xx body that
\* is not JSON it is "Network error: <message>", in both cases without the
\* hint list.  A returned text holds the static hint list exactly when it is
\* the text of track_payment for a non-2xx response.
C12_PaymentRendering ==
    /\ (tool = "create_payment" /\ Len(replies) = 1)
       => /\ pc = "returned"
          /\ Success(replies[1]) => PaymentSuccessRendered
          /\ Non2xx(replies[1])
             => /\ Len(envelope.text) = 4
                /\ envelope.text[1] = "Error "
                /\ envelope.text[2] = ToString(replies[1].status)
          /\ (TransportFailure(replies[1]) \/ UnparseableSuccess(replies[1]))
             => /\ Len(envelope.text) = 2
                /\ envelope.text[1] = "Network error: "
    /\ (pc = "returned")
       => (Contains(envelope.text, PaymentHints)
           <=> tool = "track_payment" /\ Non2xx(replies[1]))

C12_Witness ==
    /\ tool = "create_payment"
    /\ pc = "returned"
    /\ Len(replies) = 1
    /\ Non2xx(replies[1])
    /\ envelope.isError

BotOrNoPageviewsHint ==
    " (Note: This might be because the visitor is detected as a bot or has no prior pageviews)"
NoPageviewsHint ==
    " (Note: This might be because the visitor has no prior pageviews)"
GoalCommonIssues ==
    "\n\n**Common issues:**\n- Visitor must have at least one prior pageview\n- Goal name must be lowercase, max 32 characters\n- Invalid visitor ID"

\* the text returned for a non-2xx response has the hint of a 400 exactly
\* for a 400 and the hint of a 404 exactly for a 404
StatusSpecificHints ==
    /\ pc = "returned"
    /\ Contains(envelope.text, BotOrNoPageviewsHint) <=> replies[1].status = 400
    /\ Contains(envelope.text, NoPageviewsHint) <=> replies[1].status = 404

\* C13 (as stated): a create_goal handler that got a non-2xx response returns
\* a text with the "bot or no prior pageviews" hint when the status is 400,
\* with the "no prior pageviews" hint when it is 404, and with neither hint
\* for any other status.
C13_GoalHintsByStatus ==
    (/\ tool \in {"create_goal", "onboarding_create_goal"}
     /\ Len(replies) = 1
     /\ Non2xx(replies[1]))
    => StatusSpecificHints

\* C13 (amended): the create_goal handler of the API server (src/index.ts)
\* appends the "bot or no prior pageviews" hint for a 400, the "no prior
\* pageviews" hint for a 404 and neither for another non-2xx status; the
\* create_goal handler of the onboarding server appends neither hint and
\* ends its text with the same list of common issues whatever the status.
C13_GoalHintsByStatusAndServer ==
    /\ (tool = "create_goal" /\ Len(replies) = 1 /\ Non2xx(replies[1]))
       => /\ StatusSpecificHints
          /\ envelope.isError
          /\ ~Contains(envelope.text, GoalCommonIssues)
    /\ (/\ tool = "onboarding_create_goal"
        /\ Len(replies) = 1
        /\ Non2xx(replies[1]))
       => /\ pc = "returned"
          /\ envelope.isError
          /\ ~Contains(envelope.text, BotOrNoPageviewsHint)
          /\ ~Contains(envelope.text, NoPageviewsHint)
          /\ envelope.text[Len(envelope.text)] = GoalCommonIssues

C13_Witness ==
    /\ tool = "create_goal"
    /\ pc = "returned"
    /\ Len(replies) = 1
    /\ replies[1].kind = "response"
    /\ replies[1].status = 404
    /\ Contains(envelope.text, NoPageviewsHint)

BotOrInvalidFormat == "Detected as bot or invalid format"
NoPageviewsFound == "No pageviews found - visitor needs to visit your site first"

\* the error.message of the response body, if it has a non-empty one
HasUpstreamMessage(o) ==
    o.body.parses /\ o.body.error_message.t = "string"
    /\ o.body.error_message.v # ""
UpstreamMessageOrStatusText(o) ==
    IF HasUpstreamMessage(o) THEN o.body.error_message.v ELSE o.statusText

\* C14: validate_visitor, for a non-2xx response, returns isError = true and
\* the text `Visitor ID "<id>" is invalid: ` followed by the fixed "bot or
\* invalid format" message for a 400, by the fixed "no pageviews" message for
\* a 404 (in both cases the upstream error message is not in the text), and
\* by the upstream error message or else the status text for any other status.
C14_ValidateVisitorFailure ==
    (tool = "validate_visitor" /\ Len(replies) = 1 /\ Non2xx(replies[1]))
    => LET o == replies[1] IN
       /\ pc = "returned"
       /\ envelope.isError
       /\ Len(envelope.text) = 4
       /\ envelope.text[3] = "\" is invalid: "
       /\ envelope.text[4] =
             IF o.status = 400 THEN BotOrInvalidFormat
             ELSE IF o.status = 404 THEN NoPageviewsFound
             ELSE UpstreamMessageOrStatusText(o)
       /\ (o.status \in {400, 404} /\ HasUpstreamMessage(o))
          => ~Contains(envelope.text, o.body.error_message.v)

C14_Witness ==
    /\ tool = "validate_visitor"
    /\ pc = "returned"
    /\ Len(replies) = 1
    /\ replies[1].kind = "response"
    /\ replies[1].status = 404
    /\ HasUpstreamMessage(replies[1])
    /\ Contains(envelope.text, NoPageviewsFound)

LowRecommendation ==
    "(bulb) **Recommendation:** Low conversion likelihood - consider showing lead magnets or special offers.\n"
HighRecommendation ==
    "(bulb) **Recommendation:** High conversion potential - create urgency or showcase premium features.\n"

\* the prediction block of the visitor in a response body, where the handler
\* of the invocation reads it: under data of a body with status "success", or
\* at top level
PredictionRead(o) ==
    IF tool = "get_visitor_data"
    THEN IF o.body.status = Str("success") THEN o.body.data.prediction
         ELSE NoPrediction
    ELSE o.body.prediction

PredictionUnavailable ==
    "\n(target) Prediction: Not available (visitor might be a customer or revenue attribution isn't set up)\n"

\* a Success response to the visitors call of the invocation: a visitor
\* without a prediction block whose other blocks are complete, in the shape
\* the handler of the invocation reads (blocks are optional for the API
\* server, top-level and required for the onboarding server)
VisitorWithoutPrediction(o) ==
    /\ Success(o)
    /\ IF tool = "get_visitor_data"
       THEN /\ o.body.status = Str("success")
            /\ o.body.data.present
            /\ o.body.data.identity.present => o.body.data.identity.parts
            /\ ~o.body.data.prediction.present
       ELSE /\ o.body.identity.present /\ o.body.identity.parts
            /\ o.body.activity.present
            /\ ~o.body.prediction.present

\* C16: a get_visitor_data handler that got a Success response for a visitor
\* without a prediction block has returned an envelope that is not marked as
\* an error and whose text says that the prediction is not available.
C16_NoPredictionNoFault ==
    (/\ tool \in {"get_visitor_data", "onboarding_get_visitor_data"}
     /\ Len(replies) = 1
     /\ VisitorWithoutPrediction(replies[1]))
    => /\ pc = "returned"
       /\ ~envelope.isError
       /\ Contains(envelope.text, PredictionUnavailable)

\* the inbound request has no api_key query parameter / has one with a value
LacksApiKey == inbound.api_key = U
HasApiKeyValue == inbound.api_key.t = "string" /\ inbound.api_key.v # ""
OnSessionPath == inbound.pathname \in {"/sse", "/sse/message", "/mcp"}
Answered == inbound.status # 0

\* C17 (as stated): every inbound request without the api_key parameter is
\* answered 401 with the plain-text instruction and starts no session, and
\* every inbound request whose path is not a session path is answered 404.
C17_UnauthorizedAndNotFound ==
    Answered
    => /\ LacksApiKey
          => /\ inbound.status = 401
             /\ inbound.text = KeyRequired
             /\ props = NoProps
       /\ ~OnSessionPath => inbound.status = 404

\* C17 (amended): the api_key is tested before the path.  Every inbound
\* request without the api_key parameter, or with an empty one, is answered
\* 401 with the plain-text instruction and starts no session, whatever its
\* path; a request is answered 404 exactly when it has an api_key value and
\* its path is not a session path, and it starts no session either.
C17_KeyTestedBeforePath ==
    Answered
    => /\ ~HasApiKeyValue
          => /\ inbound.status = 401
             /\ inbound.text = KeyRequired
             /\ props = NoProps
       /\ inbound.status = 404 <=> (HasApiKeyValue /\ ~OnSessionPath)
       /\ inbound.status = 404 => props = NoProps
       /\ (HasApiKeyValue /\ OnSessionPath) => props = [apiKey |-> inbound.api_key]

C17_Witness ==
    /\ LacksApiKey
    /\ inbound.pathname = "/"
    /\ inbound.status = 401

\* C18: the session's credential is the api_key value of the inbound request
\* that started the session and stays that value, and every outbound call of
\* an invocation has the header Authorization: Bearer <that value>.
C18_BearerIsSessionKey ==
    /\ (props # NoProps)
       => HasApiKeyValue /\ OnSessionPath /\ props = [apiKey |-> inbound.api_key]
    /\ \A i \in 1..Len(calls) :
          calls[i].headers.Authorization = <<"Bearer ", inbound.api_key.v>>

C18_Witness ==
    /\ tool = "create_revenue_goal"
    /\ Len(calls) = 2
    /\ IsPaymentsCall(calls[2])
    /\ inbound.api_key = Str("key_B")
    /\ calls[2].headers.Authorization = <<"Bearer ", "key_B">>

\* invocation i has issued its payments call
IssuedPayment(i) ==
    Len(invocations[i].calls) = 2 /\ IsPaymentsCall(invocations[i].calls[2])
PaymentTransactionId(i) == invocations[i].calls[2].body.transaction_id

\* C19: the payments calls of two create_revenue_goal invocations carry
\* different transaction_id values.
C19_TransactionIdsUnique ==
    \A i, j \in Invocations :
        (i # j /\ IssuedPayment(i) /\ IssuedPayment(j))
        => PaymentTransactionId(i) # PaymentTransactionId(j)

\* the tools whose handler has one await of a fetch
OneCallTools == Tools \ {"create_revenue_goal", "batch_create_goals"}

\* C21: no outbound call is retried.  An invocation of a single-call tool has
\* issued exactly one call, whatever its outcome; an invocation of
\* create_revenue_goal has issued its goals call and at most one payments call
\* after it; an invocation of batch_create_goals with n items has issued at
\* most n calls and, once it has ended, exactly n; and an invocation that has
\* ended has one outcome per call.
C21_NoRetries ==
    (tool # "none" /\ pc # "rejected")
    => /\ tool \in OneCallTools => Len(calls) = 1
       /\ tool = "create_revenue_goal"
          => /\ Len(calls) \in {1, 2}
             /\ IsGoalsCall(calls[1])
             /\ Len(calls) = 2 => IsPaymentsCall(calls[2])
       /\ tool = "batch_create_goals"
          => /\ Len(calls) <= Len(params.goals)
             /\ Ended => Len(calls) = Len(params.goals)
       /\ Len(replies) <= Len(calls)
       /\ Ended => Len(replies) = Len(calls)

C21_Witness ==
    /\ tool = "batch_create_goals"
    /\ pc = "returned"
    /\ Len(params.goals) = 2
    /\ Len(calls) = 2
    /\ Non2xx(replies[1])
    /\ Non2xx(replies[2])

\* the response body parses as JSON and has an error.message field
CarriesErrorMessage(o) == o.body.parses /\ o.body.error_message.t = "string"

\* C22 (as stated): create_payment, for a non-2xx response, returns the line
\* "Error <status>: <message>" where <message> is the error.message field of
\* the body when the body parses as JSON and carries that field and the HTTP
\* status text otherwise, and no parse exception leaves the handler.
C22_MessageWhenCarried ==
    (tool = "create_payment" /\ Len(replies) = 1 /\ Non2xx(replies[1]))
    => LET o == replies[1] IN
       /\ pc = "returned"
       /\ RendersAfter(envelope.text, ": ",
                       IF CarriesErrorMessage(o) THEN o.body.error_message.v
                       ELSE o.statusText)

\* the call whose outcome is reply i is one for which a non-2xx response is
\* rendered as "Error <status>: <message>"
RendersErrorLine(i) ==
    \/ tool \in StatusTools
    \/ tool = "create_revenue_goal" /\ i = 1

\* C22 (amended): for a non-2xx response the rendered error message is the
\* error.message field of the response body when the body parses as JSON and
\* carries a non-empty error.message, and the HTTP status text otherwise (the
\* body is not JSON, has no error.message, or has an empty one); the handler
\* returns an error envelope and no parse exception leaves it.  This holds for
\* the "Error <status>: <message>" line of every handler that renders one,
\* for validate_visitor at statuses other than 400 and 404, and for the error
\* of a batch_create_goals item.
C22_MessageOrStatusText ==
    /\ (pc = "returned" /\ Len(replies) = 1 /\ Non2xx(replies[1])
        /\ RendersErrorLine(1))
       => /\ envelope.isError
          /\ RendersAfter(envelope.text, ": ",
                          UpstreamMessageOrStatusText(replies[1]))
    /\ (tool \in StatusTools \cup {"create_revenue_goal", "validate_visitor"}
        /\ Len(replies) = 1 /\ Non2xx(replies[1]))
       => pc = "returned"
    /\ (tool = "validate_visitor" /\ Len(replies) = 1 /\ Non2xx(replies[1])
        /\ replies[1].status \notin {400, 404})
       => envelope.text[Len(envelope.text)]
             = UpstreamMessageOrStatusText(replies[1])
    /\ (tool = "batch_create_goals")
       => \A i \in 1..Len(results) :
             Non2xx(replies[i])
             => /\ ~results[i].success
                /\ results[i].error = UpstreamMessageOrStatusText(replies[i])

C22_Witness ==
    /\ tool = "create_payment"
    /\ pc = "returned"
    /\ Len(replies) = 1
    /\ Non2xx(replies[1])
    /\ replies[1].body = ErrorJson(Str(""))
    /\ envelope.text = <<"Error ", "400", ": ", "Bad Request">>

\* the returned text is the one of an HTTP error: "Error <status>: <message>"
\* with isError = true
HttpErrorRendered ==
    /\ pc = "returned"
    /\ envelope.isError
    /\ Contains(envelope.text, "Error ")

\* C23 (as stated): create_payment classifies a response as an HTTP error
\* exactly when its status is outside [200, 299): 200..298 is a success, and
\* 299, like a status below 200 or above 299, is an error.
C23_HalfOpenRange ==
    (tool = "create_payment" /\ Len(replies) = 1
     /\ replies[1].kind = "response")
    => (HttpErrorRendered <=> replies[1].status \notin 200..298)

\* C23 (amended): a response is classified as an HTTP error exactly when its
\* status is outside the closed range [200, 299] (response.ok is false):
\* statuses 200..299, 299 included, take the success path, every other status
\* takes the error path.  For the handlers with an "Error <status>: ..." line
\* that line is returned exactly for those statuses, validate_visitor returns
\* its "is invalid" text exactly for them, and a batch_create_goals item with
\* a JSON body is recorded as a success exactly for a status in 200..299.
C23_ClosedRange ==
    /\ (tool \in StatusTools /\ Len(replies) = 1
        /\ replies[1].kind = "response")
       => (HttpErrorRendered <=> replies[1].status \notin 200..299)
    /\ (tool = "validate_visitor" /\ Len(replies) = 1
        /\ replies[1].kind = "response")
       => (Contains(envelope.text, "\" is invalid: ")
           <=> replies[1].status \notin 200..299)
    /\ (tool = "batch_create_goals")
       => \A i \in 1..Len(results) :
             (replies[i].kind = "response" /\ replies[i].body.parses)
             => (results[i].success <=> replies[i].status \in 200..299)

C23_Witness ==
    /\ tool = "create_payment"
    /\ pc = "returned"
    /\ Len(replies) = 1
    /\ replies[1].kind = "response"
    /\ replies[1].status = 299
    /\ replies[1].body.parses
    /\ ~envelope.isError
    /\ PaymentSuccessRendered

\* the first segment of the text of a catch block
NetworkErrorMarkers ==
    {"Network error: ", "Network error validating visitor \""}

C25_GoalThenPayment ==
    (tool = "create_revenue_goal" /\ pc # "rejected")
    => /\ IsGoalsCall(calls[1])
       /\ calls[1].body.datafast_visitor_id = params.datafast_visitor_id
       /\ calls[1].body.name = params.goal_name
       /\ \A i \in 1..Len(calls) :
             IsPaymentsCall(calls[i])
             => /\ i = 2
                /\ Len(replies) >= 1
                /\ Success(replies[1])
                /\ calls[i].method = "POST"
                /\ DOMAIN calls[i].body =
                      {"amount", "currency", "transaction_id",
                       "datafast_visitor_id", "renewal", "refunded"}
                /\ calls[i].body.datafast_visitor_id = params.datafast_visitor_id
                /\ calls[i].body.amount = params.revenue_amount
                /\ calls[i].body.amount.t = "number"
                /\ calls[i].body.currency = params.currency
                /\ calls[i].body.currency \in {Str("USD"), Str("EUR")}
                /\ calls[i].body.renewal = Bool(FALSE)
                /\ calls[i].body.refunded = Bool(FALSE)
       /\ pc = "awaiting_payment" => Len(calls) = 2 /\ IsPaymentsCall(calls[2])

C25_Witness ==
    /\ tool = "create_revenue_goal"
    /\ pc = "awaiting_payment"
    /\ Len(calls) = 2
    /\ Len(replies) = 1
    /\ IsPaymentsCall(calls[2])
    /\ calls[2].body.currency = Str("EUR")
    /\ calls[2].body.amount = Num("29.99")
    /\ calls[2].body.refunded = Bool(FALSE)

\* C26: throughout batch_create_goals the results array holds one record per
\* processed item: after j outcomes it has j records, the loop is at item
\* j + 1, record i carries the name and the visitor of input item i and is a
\* success exactly when call i was one; at the end there are n records and
\* the two counts of the summary add up to n.
C26_OneRecordPerItem ==
    (tool = "batch_create_goals" /\ pc # "rejected")
    => LET n == Len(params.goals) IN
       /\ Len(results) = Len(replies)
       /\ Len(results) <= n
       /\ pc = "awaiting" => idx = Len(results) + 1
       /\ \A i \in 1..Len(results) :
             /\ results[i].goal = params.goals[i].name
             /\ results[i].visitor = params.goals[i].datafast_visitor_id
             /\ results[i].success \in BOOLEAN
             /\ results[i].success <=> Success(replies[i])
       /\ Ended
          => /\ Len(results) = n
             /\ CountSuccess(results) + CountFailure(results) = n
             /\ \E s, f \in 0..n :
                   /\ s + f = n
                   /\ envelope.text[3] = ToString(s)
                   /\ envelope.text[6] = ToString(f)

C26_Witness ==
    /\ tool = "batch_create_goals"
    /\ pc = "awaiting"
    /\ Len(params.goals) = 2
    /\ Len(results) = 1
    /\ idx = 2
    /\ ~results[1].success
    /\ results[1].goal = params.goals[1].name

\* a 2xx response whose JSON body has status "success" and a data field
SuccessWithData(o) ==
    Success(o) /\ o.body.status = Str("success") /\ o.body.data.present

UnexpectedFormat == "Unexpected response format from DataFast API"

\* C27: validate_visitor returns an envelope without isError, saying that
\* the visitor is valid, exactly when the visitors call got a 2xx response
\* whose JSON body has status "success" and a data field; for a 2xx JSON body
\* without one of the two it returns the "returned unexpected response
\* format" text with isError = true, while get_visitor_data and
\* get_analytics_summary return "Unexpected response format from DataFast
\* API" for such a response without isError.
C27_ValidIffSuccessWithData ==
    /\ (tool = "validate_visitor" /\ Len(replies) = 1)
       => /\ pc = "returned"
          /\ ~envelope.isError <=> SuccessWithData(replies[1])
          /\ Contains(envelope.text, "\" is valid and has data available.")
             <=> SuccessWithData(replies[1])
          /\ (Success(replies[1]) /\ ~SuccessWithData(replies[1]))
             => /\ envelope.isError
                /\ envelope.text[Len(envelope.text)]
                      = "\" returned unexpected response format."
    /\ (tool \in {"get_visitor_data", "get_analytics_summary"}
        /\ Len(replies) = 1
        /\ Success(replies[1]) /\ ~SuccessWithData(replies[1]))
       => /\ pc = "returned"
          /\ envelope = Plain(<<UnexpectedFormat>>)

C27_Witness ==
    /\ tool = "validate_visitor"
    /\ pc = "returned"
    /\ Len(replies) = 1
    /\ Success(replies[1])
    /\ replies[1].body.status = Str("success")
    /\ ~replies[1].body.data.present
    /\ envelope.isError

\* the metadata record the caller passed to the invocation
CallerMetadata ==
    IF params.metadata.t = "object" THEN MetadataOf(params.metadata.v)
    ELSE EmptyObject

\* C28: the metadata of the goals call of create_revenue_goal has the keys
\* revenue_amount and currency and the caller's keys, and no other; a key the
\* caller passed has the caller's value, revenue_amount and currency
\* included, and otherwise revenue_amount is the revenue_amount parameter as
\* a string and currency is the currency parameter.
C28_CallerMetadataOverrides ==
    (tool = "create_revenue_goal" /\ pc # "rejected")
    => LET sent == calls[1].metadata IN
       /\ IsGoalsCall(calls[1])
       /\ "metadata" \in DOMAIN calls[1].body
       /\ DOMAIN sent = {"revenue_amount", "currency"} \cup DOMAIN CallerMetadata
       /\ \A k \in DOMAIN CallerMetadata : sent[k] = CallerMetadata[k]
       /\ "revenue_amount" \notin DOMAIN CallerMetadata
          => sent["revenue_amount"] = Str(params.revenue_amount.v)
       /\ "currency" \notin DOMAIN CallerMetadata
          => sent["currency"] = params.currency
       /\ \A k \in DOMAIN sent : sent[k].t = "string"

C28_Witness ==
    /\ tool = "create_revenue_goal"
    /\ Len(calls) >= 1
    /\ params.currency = Str("USD")
    /\ params.revenue_amount = Num("29.99")
    /\ "currency" \in DOMAIN CallerMetadata
    /\ calls[1].metadata["currency"] = Str("EUR")
    /\ calls[1].metadata["revenue_amount"] = Str("1")

RequiredPaymentFields ==
    {"amount", "currency", "transaction_id", "datafast_visitor_id"}
OptionalPaymentStrings == {"email", "name", "customer_id", "timestamp"}

\* C29: the body of the payments call of create_payment has the four
\* required fields with the caller's values, has renewal and refunded as
\* booleans (the caller's value, false when the caller gave none), and has an
\* optional string field, with the caller's value, exactly when the caller
\* supplied a non-empty string for it; it has no other key.
C29_PaymentBodyFields ==
    (tool = "create_payment" /\ Len(calls) >= 1)
    => LET body == calls[1].body IN
       /\ IsPaymentsCall(calls[1])
       /\ DOMAIN body \subseteq
             RequiredPaymentFields \cup OptionalPaymentStrings
             \cup {"renewal", "refunded"}
       /\ \A k \in RequiredPaymentFields :
             k \in DOMAIN body /\ body[k] = params[k] /\ body[k] # U
       /\ \A k \in {"renewal", "refunded"} :
             /\ k \in DOMAIN body
             /\ body[k] \in {Bool(TRUE), Bool(FALSE)}
             /\ body[k] = IF params[k] = Bool(TRUE) THEN Bool(TRUE)
                          ELSE Bool(FALSE)
       /\ \A k \in OptionalPaymentStrings :
             /\ k \in DOMAIN body
                <=> (params[k].t = "string" /\ params[k].v # "")
             /\ k \in DOMAIN body => body[k] = params[k]

C29_Witness ==
    /\ tool = "create_payment"
    /\ Len(calls) = 1
    /\ params.timestamp = Str("")
    /\ "timestamp" \notin DOMAIN calls[1].body
    /\ "email" \in DOMAIN calls[1].body
    /\ calls[1].body["refunded"] = Bool(FALSE)
    /\ calls[1].body["renewal"] = Bool(FALSE)

InFlight == pc \in {"awaiting", "awaiting_payment"}

\* batch_create_goals awaits a call as long as fewer outcomes than items have
\* arrived, and has returned once the outcome of the call of its last item
\* has
BatchEndsWithLastCall ==
    (tool = "batch_create_goals")
    => /\ pc = "awaiting" => Len(replies) < Len(params.goals)
       /\ Len(replies) = Len(params.goals) => pc = "returned"

====
